---- MODULE Spec2Model ----
(***************************************************************************)
(* A model of the job-search pipeline: Discovery and its authentication   *)
(* (get_jobs.py), Enrichment (get_jd.py), Matching (resume_job_matcher.py) *)
(* and the Control Surface that runs them in threads (app.py).  Each part  *)
(* is a state machine of its own, with its own specification; the          *)
(* variables of the other parts stay at their initial values.              *)
(*                                                                         *)
(* Python values are modelled as follows.  A dict is a function whose      *)
(* domain is the set of its keys (a record), so that a missing key is a    *)
(* key outside DOMAIN.  None is the string None.  A text is a sequence of  *)
(* tokens.  A JSON number or string used as a score is a tagged value      *)
(* [type, val].  An optional value (Python's "x or None") is <<>> or <<x>>.*)
(***************************************************************************)
EXTENDS Integers, Sequences, FiniteSets, TLC

VARIABLES
    \* Enrichment: main and fetch_all_job_descriptions (get_jd.py)
    input_file,              \* collected_jobs.json
    jobs_data,               \* the input list of JobRecords
    ei,                      \* the number of loop iterations completed (i)
    jobs_with_descriptions,  \* the list built by the loop
    output_file,             \* jobs_with_descriptions.json
    fetched,                 \* what fetch_job_description returned, per item
    epc,                     \* "main", "halted", "loop", "done" or "raised"
    responses,               \* what the GET of each item's page gave
    run,                     \* 1 in the first run on the input, 2 in a rerun
    first_output,            \* the output file as the first run left it
    \* Matching: ResumeJobMatcher.analyze_all_jobs (resume_job_matcher.py)
    jobs,                    \* the list loaded from jobs_file
    mi,                      \* the number of loop iterations completed
    results,                 \* the list built by the loop, sorted at the end
    inference,               \* what the inference call did, per item
    mpc,                     \* "loop", "sort", "returned" or "raised"
    \* Discovery: LinkedInJobCollector.collect_job_ids_from_search (get_jobs.py)
    is_logged_in,            \* self.is_logged_in
    max_jobs,                \* the max_jobs argument
    collected_jobs,          \* the local list collected_jobs
    seen_job_ids,            \* the local set seen_job_ids
    current_job_ids,         \* the list read from the page in this iteration
    cur,                     \* the position of the for loop in current_job_ids
    page,                    \* the ids the page shows, in order
    hidden,                  \* the ids of the search the page does not show yet
    current_job,             \* the job the page has selected (currentJobId)
    views,                   \* the ids of all the views the run has read
    steps,                   \* the number of while-loop iterations started
    dpc,                     \* the position of the discovery run
    \* Authentication: LinkedInJobCollector.ensure_logged_in (get_jobs.py)
    login_args,              \* whether cookies_file, and email and password, are given
    cookie_file,             \* whether linkedin_cookies.json exists
    attempts,                \* the strategies attempted, with their outcomes
    login_result,            \* the value returned, None before the return
    lpc,                     \* "cookies", "credentials", "manual" or "returned"
    \* Control Surface: the requests and background runs of app.py
    process_status,          \* the global process_status
    files,                   \* the stage files of the working directory
    runs,                    \* the background threads started so far
    reset_pc,                \* the position of a reset request, 0 when none
    upload_pc,               \* the position of an upload request
    requests,                \* the number of requests accepted so far
    \* Reporting: ResumeJobMatcher.create_summary_report (resume_job_matcher.py)
    report_input,            \* the list of analyses the report is made of
    clock,                   \* the time datetime.now() gives
    reports                  \* what the calls made so far returned

enrichVars == <<input_file, jobs_data, ei, jobs_with_descriptions, output_file,
                fetched, epc, responses, run, first_output>>
matchVars == <<jobs, mi, results, inference, mpc>>
discVars == <<is_logged_in, max_jobs, collected_jobs, seen_job_ids,
              current_job_ids, cur, page, hidden, current_job, views, steps, dpc>>
discRest == <<max_jobs, collected_jobs, seen_job_ids, current_job_ids, cur,
              page, hidden, current_job, views, steps, dpc>>
loginVars == <<login_args, cookie_file, attempts, login_result, lpc>>
appVars == <<process_status, files, runs, reset_pc, upload_pc, requests>>
reportVars == <<report_input, clock, reports>>
vars == <<enrichVars, matchVars, discVars, loginVars, appVars, reportVars>>

----------------------------------------------------------------------------
(* Bounds of the model *)

\* the longest input list of a stage whose records are drawn freely
MaxJobs == 3
\* how many items the long, regular input lists have beyond one checkpoint
ExtraLong == 1
\* the number of distinct job ids of a search
NumIds == 3
\* the largest max_jobs argument
MaxQuota == 3
\* the largest number of while-loop iterations of one discovery run
MaxSteps == 4
\* the number of background threads the Control Surface starts
MaxRuns == 2
\* the largest number of jobs a discovery of the Control Surface returns
MaxFound == 1
\* the number of requests the Control Surface accepts (collection, analysis,
\* upload, reset), rejected requests apart
MaxRequests == 3
\* the longest list of analyses a report is made of
MaxReport == 4
\* how far the time advances while the reports are made
MaxClock == 1

----------------------------------------------------------------------------
(* Python values *)

None == "None"
EmptyText == <<>>
Range(s) == {s[k] : k \in 1..Len(s)}
SeqsUpTo(S, n) == UNION {[1..k -> S] : k \in 0..n}

\* dict.get(key, default)
Get(d, key, default) == IF key \in DOMAIN d THEN d[key] ELSE default

----------------------------------------------------------------------------
(* Enrichment: get_jd.py *)

CheckpointEvery == 5

JobUrl(job_id) == <<"https://www.linkedin.com/jobs/view/", job_id>>

\* What the GET of a job page can give: an exception of requests, another
\* exception (parsing), or a page.  A page is given by what select_one finds
\* for each selector of each field, in the order of the selector lists:
\* <<>> when no element matches, <<text>> for the text of the element.
NoElement == <<>>
Element(text) == <<text>>

PageFull ==
    [description |-> <<NoElement, Element(<<"a", " ", "b">>), NoElement,
                       NoElement, NoElement, NoElement>>,
     title |-> <<Element("Engineer"), NoElement, Element("Other")>>,
     company |-> <<NoElement, Element("Acme"), NoElement>>,
     location |-> <<Element("Berlin"), NoElement>>]
PageBare ==
    [description |-> <<NoElement, NoElement, NoElement,
                       NoElement, NoElement, NoElement>>,
     title |-> <<NoElement, NoElement, NoElement>>,
     company |-> <<NoElement, NoElement, NoElement>>,
     location |-> <<NoElement, NoElement>>]
PagePartial ==
    [description |-> <<Element(EmptyText), Element(<<"a">>), NoElement,
                       NoElement, NoElement, NoElement>>,
     title |-> <<NoElement, NoElement, Element("Analyst")>>,
     company |-> <<Element(""), Element("Acme"), NoElement>>,
     location |-> <<NoElement, NoElement>>]
Pages == {PageFull, PageBare, PagePartial}

Responses ==
    {[kind |-> "RequestException"], [kind |-> "Exception"]}
        \cup {[kind |-> "page", soup |-> p] : p \in Pages}

\* for selector in selectors: element = soup.select_one(selector);
\* if element: value = element.get_text(strip=True); break
RECURSIVE SelectFirst(_, _)
SelectFirst(found, default) ==
    IF found = <<>> THEN default
    ELSE IF Head(found) # NoElement THEN Head(found)[1]
    ELSE SelectFirst(Tail(found), default)

\* fetch_job_description: None on any exception, else the job_details dict
fetch_job_description(response) ==
    IF response.kind # "page" THEN <<>>
    ELSE <<[title |-> SelectFirst(response.soup.title, None),
            company |-> SelectFirst(response.soup.company, None),
            location |-> SelectFirst(response.soup.location, None),
            employment_type |-> None,
            seniority_level |-> None,
            description |-> SelectFirst(response.soup.description, EmptyText)]>>

\* {**job, **job_details}: the keys of both, job_details winning
MergeJob(job, job_details) == job_details @@ job

\* a plausible slip: job.update(job_details), which changes the input record
InputAfterMerge_InPlace(list, k, got) ==
    IF got # <<>> THEN [list EXCEPT ![k] = MergeJob(list[k], got[1])] ELSE list

\* the input list after item k: {**job, **job_details} builds a new dict and
\* the else branch appends the record as it is, so the list and its records
\* are what they were
InputAfterMerge(list, k, got) == list

\* a plausible slip: the failed fetch marks the record with an empty description
EnrichedJob_FailureBlanksDescription(job, got) ==
    IF got # <<>> THEN MergeJob(job, got[1])
    ELSE [description |-> EmptyText] @@ job

\* the record the loop appends for one item: the merge when the fetch gave
\* job_details, the original job when it gave None
EnrichedJob(job, got) ==
    IF got # <<>> THEN MergeJob(job, got[1]) ELSE job

\* a plausible slip: nothing is appended when the fetch failed
AppendEnriched_DropFailed(list, job, got) ==
    IF got # <<>> THEN Append(list, EnrichedJob(job, got)) ELSE list

\* a plausible slip: the new record is put in front of the list
AppendEnriched_InFront(list, job, got) == <<EnrichedJob(job, got)>> \o list

\* jobs_with_descriptions.append(...), in either branch
AppendEnriched(list, job, got) == Append(list, EnrichedJob(job, got))

\* A JSON text is the list of its objects, an object the function from its
\* keys to JSON values: null, a number or a string.  The timestamp of a record
\* is a number, its url and description are strings (texts), and each other
\* field is a string or None.
NumberKeys == {"timestamp"}
TextKeys == {"url", "description"}
ToJson(key, v) ==
    IF key \in NumberKeys THEN [j |-> "number", n |-> v]
    ELSE IF key \in TextKeys THEN [j |-> "string", s |-> v]
    ELSE IF v = None THEN [j |-> "null"]
    ELSE [j |-> "string", s |-> v]
FromJson(value) ==
    IF value.j = "null" THEN None
    ELSE IF value.j = "number" THEN value.n
    ELSE value.s

\* json.dump(records, f) and json.load(f)
JsonDump(records) ==
    [k \in 1..Len(records) |->
        [key \in DOMAIN records[k] |-> ToJson(key, records[k][key])]]
JsonLoad(text) ==
    [k \in 1..Len(text) |-> [key \in DOMAIN text[k] |-> FromJson(text[k][key])]]

\* a file that holds a JSON text, and a missing file
FileOf(text) == [exists |-> TRUE, data |-> text]
NoFile == [exists |-> FALSE, data |-> <<>>]

\* a plausible slip: the file is opened with 'a', so that the text is added
\* to what the file holds
SaveFile_Appends(records) == FileOf(output_file.data \o JsonDump(records))

\* with open(output_file, 'w') as f: json.dump(records, f): whatever the file
\* held, it holds the text of records
SaveFile(records) == FileOf(JsonDump(records))

\* load_collected_jobs: the list of the file, [] when the file is missing
load_collected_jobs(file) == IF file.exists THEN JsonLoad(file.data) ELSE <<>>

\* the records Discovery writes, and records of a stage file that lack a key
JobA == [job_id |-> "j1", url |-> JobUrl("j1"), title |-> "Dev",
         company |-> None, location |-> None, timestamp |-> 1]
JobB == [job_id |-> "j2", url |-> JobUrl("j2"), title |-> None,
         company |-> None, location |-> None, timestamp |-> 2]
JobDone == [job_id |-> "j3", url |-> JobUrl("j3"), title |-> "Lead",
            company |-> "Initech", location |-> "Oslo", timestamp |-> 3,
            employment_type |-> None, seniority_level |-> None,
            description |-> <<"c">>]
JobNoUrl == [job_id |-> "j4", title |-> None, company |-> None,
             location |-> None, timestamp |-> 4]
JobNoId == [url |-> JobUrl("j5"), title |-> None, company |-> None,
            location |-> None, timestamp |-> 5]
JobRecords == {JobA, JobB, JobDone}
StageRecords == JobRecords \cup {JobNoUrl, JobNoId}

WellFormed(job) == "job_id" \in DOMAIN job /\ "url" \in DOMAIN job

LongInput(n) == [k \in 1..n |-> IF k % 2 = 1 THEN JobA ELSE JobB]
EnrichInputs ==
    SeqsUpTo(StageRecords, MaxJobs)
        \cup {LongInput(n) : n \in CheckpointEvery..(CheckpointEvery + ExtraLong)}

EnrichInit ==
    /\ input_file \in {NoFile} \cup {FileOf(JsonDump(d)) : d \in EnrichInputs}
    /\ jobs_data = <<>>
    /\ ei = 0
    /\ jobs_with_descriptions = <<>>
    /\ output_file \in {NoFile, FileOf(JsonDump(<<JobDone>>))}
    /\ fetched = <<>>
    /\ epc = "main"
    /\ responses = <<>>
    /\ run = 1
    /\ first_output = NoFile

\* main of get_jd.py, and main.py: load_collected_jobs gives [] for a missing
\* file or an empty list; "if not jobs_data" returns (exits) before the stage
EnrichHalts ==
    /\ epc = "main"
    /\ load_collected_jobs(input_file) = <<>>
    /\ epc' = "halted"
    /\ UNCHANGED <<input_file, jobs_data, ei, jobs_with_descriptions,
                   output_file, fetched, responses, run, first_output>>
    /\ UNCHANGED <<matchVars, discVars, loginVars, appVars, reportVars>>

\* the same callers with a list that is not empty: the stage is called with it
EnrichLoads ==
    /\ epc = "main"
    /\ load_collected_jobs(input_file) # <<>>
    /\ jobs_data' = load_collected_jobs(input_file)
    /\ epc' = "loop"
    /\ UNCHANGED <<input_file, ei, jobs_with_descriptions, output_file, fetched,
                   responses, run, first_output>>
    /\ UNCHANGED <<matchVars, discVars, loginVars, appVars, reportVars>>

\* collect_jobs_background, which has written the file just before and calls
\* the stage with whatever load_collected_jobs gives, the empty list included
EnrichLoadsUnguarded ==
    /\ epc = "main"
    /\ input_file.exists
    /\ load_collected_jobs(input_file) = <<>>
    /\ jobs_data' = load_collected_jobs(input_file)
    /\ epc' = "loop"
    /\ UNCHANGED <<input_file, ei, jobs_with_descriptions, output_file, fetched,
                   responses, run, first_output>>
    /\ UNCHANGED <<matchVars, discVars, loginVars, appVars, reportVars>>

\* one iteration of the for loop whose item lacks 'job_id' (line 120) or
\* 'url' (line 125): the KeyError leaves fetch_all_job_descriptions
EnrichItemRaises ==
    /\ epc = "loop"
    /\ ei < Len(jobs_data)
    /\ ~WellFormed(jobs_data[ei + 1])
    /\ epc' = "raised"
    /\ UNCHANGED <<input_file, jobs_data, ei, jobs_with_descriptions,
                   output_file, fetched, responses, run, first_output>>
    /\ UNCHANGED <<matchVars, discVars, loginVars, appVars, reportVars>>

\* one iteration of the for loop: fetch, append, checkpoint
EnrichItem ==
    /\ epc = "loop"
    /\ ei < Len(jobs_data)
    /\ WellFormed(jobs_data[ei + 1])
    /\ \E response \in (IF run = 1 THEN Responses ELSE {responses[ei + 1]}) :
        LET job == jobs_data[ei + 1]
            job_details == fetch_job_description(response)
            appended == AppendEnriched(jobs_with_descriptions, job, job_details)
        IN  /\ jobs_with_descriptions' = appended
            /\ fetched' = Append(fetched, job_details)
            /\ responses' = IF run = 1 THEN Append(responses, response)
                                       ELSE responses
            /\ jobs_data' = InputAfterMerge(jobs_data, ei + 1, job_details)
            /\ ei' = ei + 1
            /\ output_file' = IF (ei + 1) % CheckpointEvery = 0
                                THEN SaveFile(appended) ELSE output_file
    /\ UNCHANGED <<input_file, epc, run, first_output>>
    /\ UNCHANGED <<matchVars, discVars, loginVars, appVars, reportVars>>

\* after the loop: the final save and the return
EnrichFinish ==
    /\ epc = "loop"
    /\ ei = Len(jobs_data)
    /\ output_file' = SaveFile(jobs_with_descriptions)
    /\ epc' = "done"
    /\ UNCHANGED <<input_file, jobs_data, ei, jobs_with_descriptions, fetched,
                   responses, run, first_output>>
    /\ UNCHANGED <<matchVars, discVars, loginVars, appVars, reportVars>>

\* fetch_all_job_descriptions is called again on the same input, and each
\* GET gives what it gave in the first run
EnrichRerun ==
    /\ epc = "done"
    /\ run = 1
    /\ run' = 2
    /\ first_output' = output_file
    /\ ei' = 0
    /\ jobs_with_descriptions' = <<>>
    /\ fetched' = <<>>
    /\ epc' = "loop"
    /\ UNCHANGED <<input_file, jobs_data, output_file, responses>>
    /\ UNCHANGED <<matchVars, discVars, loginVars, appVars, reportVars>>

EnrichNext ==
    \/ EnrichHalts \/ EnrichLoads \/ EnrichLoadsUnguarded
    \/ EnrichItemRaises \/ EnrichItem \/ EnrichFinish

----------------------------------------------------------------------------
(* Matching: resume_job_matcher.py *)

\* A text is a sequence of tokens: a word ("a", "Show", "more", "less", in
\* any case) or a whitespace character (" " or "\n").
IsSpace(c) == c \in {" ", "\n"}
Fold(c) ==
    CASE c \in {"show", "SHOW"} -> "Show"
      [] c \in {"More", "MORE"} -> "more"
      [] c \in {"Less", "LESS"} -> "less"
      [] OTHER -> c
ShowMore == <<"Show", " ", "more">>
ShowLess == <<"Show", " ", "less">>

\* re.sub(r'\s+', ' ', text): every run of whitespace becomes one space
RECURSIVE CollapseSpaces(_)
CollapseSpaces(text) ==
    IF text = <<>> THEN <<>>
    ELSE IF IsSpace(Head(text))
        THEN IF Len(text) > 1 /\ IsSpace(text[2])
                THEN CollapseSpaces(Tail(text))
                ELSE <<" ">> \o CollapseSpaces(Tail(text))
        ELSE <<Head(text)>> \o CollapseSpaces(Tail(text))

\* text.strip()
RECURSIVE StripLeft(_)
StripLeft(text) ==
    IF text # <<>> /\ IsSpace(Head(text)) THEN StripLeft(Tail(text)) ELSE text
RECURSIVE StripRight(_)
StripRight(text) ==
    IF text # <<>> /\ IsSpace(text[Len(text)])
        THEN StripRight(SubSeq(text, 1, Len(text) - 1)) ELSE text
Strip(text) == StripRight(StripLeft(text))

\* whether pattern (of folded tokens) matches text at position k, ignoring case
MatchesAt(text, k, pattern) ==
    /\ k + Len(pattern) - 1 <= Len(text)
    /\ \A n \in 1..Len(pattern) : Fold(text[k + n - 1]) = pattern[n]

\* re.sub(r'Show more.*?Show less', '', text, flags=re.IGNORECASE): from left
\* to right, each "Show more" with a later "Show less" is removed up to the
\* nearest such "Show less"
RECURSIVE RemoveShowMore(_)
RemoveShowMore(text) ==
    IF text = <<>> THEN <<>>
    ELSE LET ends == {k \in (1 + Len(ShowMore))..Len(text) :
                            MatchesAt(text, k, ShowLess)}
         IN  IF MatchesAt(text, 1, ShowMore) /\ ends # {}
                THEN LET k == CHOOSE e \in ends : \A o \in ends : e <= o
                     IN  RemoveShowMore(SubSeq(text, k + Len(ShowLess), Len(text)))
                ELSE <<Head(text)>> \o RemoveShowMore(Tail(text))

clean_text(text) ==
    IF text = EmptyText THEN EmptyText
    ELSE RemoveShowMore(Strip(CollapseSpaces(text)))

\* JSON values of a score: a number, a string (given by the number it spells)
\* or null
JInt(n) == [type |-> "int", val |-> n]
JStr(n) == [type |-> "str", val |-> n]
JNull == [type |-> "null", val |-> 0]

\* The tokens of a response text: prose, braces, and the members of an
\* object ("key": value, with its separator)
Prose == [tok |-> "prose"]
LBrace == [tok |-> "{"]
RBrace == [tok |-> "}"]
ScoreMember(v) == [tok |-> "overall_score", score |-> v]
SubScoreMember(v) == [tok |-> "sub_scores", score |-> v]
PriorityMember(p) == [tok |-> "priority", prio |-> p]
\* the members "job_id" and "job_url" of a response that names a job itself
JobRefMember == [tok |-> "job_ref"]
IsMember(t) == t.tok \in {"overall_score", "sub_scores", "priority", "job_ref"}

\* the dict of one member
MemberDict(t) ==
    CASE t.tok = "overall_score" -> [overall_score |-> t.score]
      [] t.tok = "sub_scores" ->
            [technical_skills_score |-> t.score, experience_score |-> t.score,
             domain_score |-> t.score, responsibilities_score |-> t.score]
      [] t.tok = "priority" -> [priority |-> t.prio]
      [] t.tok = "job_ref" -> [job_id |-> "other", job_url |-> <<"other">>]

\* a plausible slip: the lazy pattern r'\{.*?\}', which ends the span at the
\* first '}' behind the first '{'
JsonMatch_NonGreedy(content) ==
    LET opens == {k \in 1..Len(content) : content[k] = LBrace}
    IN  IF opens = {} THEN <<>>
        ELSE LET first == CHOOSE k \in opens : \A o \in opens : k <= o
                 closes == {k \in (first + 1)..Len(content) : content[k] = RBrace}
             IN  IF closes = {} THEN <<>>
                 ELSE LET last == CHOOSE k \in closes : \A o \in closes : k <= o
                      IN  <<SubSeq(content, first, last)>>

\* re.search(r'\{.*\}', content, re.DOTALL): from the first '{' to the last
\* '}' of the text, when the one comes before the other; else no match
JsonMatch(content) ==
    LET opens == {k \in 1..Len(content) : content[k] = LBrace}
        closes == {k \in 1..Len(content) : content[k] = RBrace}
    IN  IF opens = {} \/ closes = {} THEN <<>>
        ELSE LET first == CHOOSE k \in opens : \A o \in opens : k <= o
                 last == CHOOSE k \in closes : \A o \in closes : k >= o
             IN  IF first < last THEN <<SubSeq(content, first, last)>> ELSE <<>>

\* json.loads of a span: an object is '{', members, '}'; a later member
\* replaces an earlier one of the same key.  <<>> stands for the ValueError.
RECURSIVE MembersDict(_)
MembersDict(members) ==
    IF members = <<>> THEN <<>>
    ELSE MemberDict(members[Len(members)])
            @@ MembersDict(SubSeq(members, 1, Len(members) - 1))

JsonLoads(span) ==
    LET inner == SubSeq(span, 2, Len(span) - 1)
    IN  IF /\ Len(span) >= 2
           /\ span[1] = LBrace
           /\ span[Len(span)] = RBrace
           /\ \A k \in 1..Len(inner) : IsMember(inner[k])
        THEN <<MembersDict(inner)>>
        ELSE <<>>

_create_fallback_analysis(job_title, company, now) ==
    [overall_score |-> JInt(0),
     technical_skills_score |-> JInt(0),
     experience_score |-> JInt(0),
     domain_score |-> JInt(0),
     responsibilities_score |-> JInt(0),
     strengths |-> <<"Analysis failed - manual review needed">>,
     gaps |-> <<"Could not analyze - check API connection">>,
     missing_keywords |-> <<>>,
     recommendations |-> <<"Retry analysis or review manually">>,
     priority |-> "UNKNOWN",
     job_title |-> job_title,
     company |-> company,
     analysis_timestamp |-> now,
     error |-> "AI analysis failed"]

\* What the inference call can do: raise, return a message without content,
\* or return a text.
GoodObject(score, prio) ==
    <<LBrace, ScoreMember(JInt(score)), SubScoreMember(JInt(score)),
      PriorityMember(prio), RBrace>>
Contents ==
    {<<Prose>>,
     <<LBrace, Prose, RBrace>>,
     <<Prose>> \o GoodObject(85, "HIGH") \o <<Prose>>,
     GoodObject(40, "LOW"),
     GoodObject(85, "MEDIUM") \o <<Prose>> \o GoodObject(40, "LOW"),
     <<LBrace, RBrace>>,
     <<LBrace, ScoreMember(JStr(85)), PriorityMember("HIGH"), RBrace>>,
     <<LBrace, ScoreMember(JNull), PriorityMember("LOW"), RBrace>>,
     <<LBrace, ScoreMember(JInt(150)), PriorityMember("URGENT"), RBrace>>,
     <<LBrace, ScoreMember(JStr(9)), PriorityMember("LOW"), RBrace>>,
     <<Prose, LBrace, Prose>> \o GoodObject(40, "LOW"),
     <<LBrace, ScoreMember(JInt(70)), PriorityMember("MEDIUM"), JobRefMember,
       RBrace>>}
InferenceOutcomes ==
    {[kind |-> "raise"], [kind |-> "no_content"]}
        \cup {[kind |-> "content", content |-> c] : c \in Contents}

\* the metadata calculate_match_score adds to the parsed object
WithMetadata(analysis, job_title, company, now) ==
    [job_title |-> job_title, company |-> company,
     analysis_timestamp |-> now] @@ analysis

\* a plausible slip: the handler of extract_key_info, which returns an empty
\* dict, used for a span that is not JSON
calculate_match_score_EmptyOnBadJson(outcome, job_title, company, now) ==
    IF outcome.kind # "content"
        THEN _create_fallback_analysis(job_title, company, now)
    ELSE LET json_match == JsonMatch(outcome.content)
         IN  IF json_match = <<>>
                THEN _create_fallback_analysis(job_title, company, now)
             ELSE LET analysis == JsonLoads(json_match[1])
                  IN  IF analysis = <<>>
                        THEN WithMetadata(<<>>, job_title, company, now)
                      ELSE WithMetadata(analysis[1], job_title, company, now)

\* calculate_match_score from the inference call on: any exception of the
\* try block (the call, re.search on None, json.loads) gives the fallback
calculate_match_score(outcome, job_title, company, now) ==
    IF outcome.kind # "content"
        THEN _create_fallback_analysis(job_title, company, now)
    ELSE LET json_match == JsonMatch(outcome.content)
         IN  IF json_match = <<>>
                THEN _create_fallback_analysis(job_title, company, now)
             ELSE LET analysis == JsonLoads(json_match[1])
                  IN  IF analysis = <<>>
                        THEN _create_fallback_analysis(job_title, company, now)
                      ELSE WithMetadata(analysis[1], job_title, company, now)

\* a plausible slip: the keys are set only where the analysis lacks them
WithJob_KeepsResponse(analysis, job) ==
    analysis @@ [job_id |-> Get(job, "job_id", "unknown"),
                 job_url |-> Get(job, "url", <<>>)]

\* analysis['job_id'] = job_id; analysis['job_url'] = job.get('url', '')
WithJob(analysis, job) ==
    [job_id |-> Get(job, "job_id", "unknown"),
     job_url |-> Get(job, "url", <<>>)] @@ analysis

\* the sort key: x.get('overall_score', 0)
SortKey(x) == Get(x, "overall_score", JInt(0))

\* list.sort compares keys with <: two ints, or two strs, compare; anything
\* else raises TypeError.  A list of fewer than two items compares nothing.
SortRaises(list) ==
    /\ Len(list) >= 2
    /\ ~ \/ \A k \in 1..Len(list) : SortKey(list[k]).type = "int"
         \/ \A k \in 1..Len(list) : SortKey(list[k]).type = "str"

\* the decimal digits of the number a string spells (no leading zeros)
Digits(n) ==
    IF n < 10 THEN <<n>>
    ELSE IF n < 100 THEN <<n \div 10, n % 10>>
    ELSE <<n \div 100, (n \div 10) % 10, n % 10>>

\* str < str: the first differing character decides, a proper prefix is smaller
RECURSIVE LexLess(_, _)
LexLess(s, t) ==
    IF t = <<>> THEN FALSE
    ELSE IF s = <<>> THEN TRUE
    ELSE IF Head(s) # Head(t) THEN Head(s) < Head(t)
    ELSE LexLess(Tail(s), Tail(t))

\* a < b for two keys of one type: numbers by value, strings by characters
KeyLess(a, b) ==
    IF a.type = "str" THEN LexLess(Digits(a.val), Digits(b.val))
    ELSE a.val < b.val

\* a plausible slip: an ascending sort that is reversed afterwards, which
\* puts x before the items of equal key
RECURSIVE InsertByScore_TiesReversed(_, _)
InsertByScore_TiesReversed(sorted, x) ==
    IF sorted = <<>> THEN <<x>>
    ELSE IF KeyLess(SortKey(x), SortKey(Head(sorted)))
        THEN <<Head(sorted)>> \o InsertByScore_TiesReversed(Tail(sorted), x)
        ELSE <<x>> \o sorted

\* list.sort(key=..., reverse=True) is stable: x goes behind every item whose
\* key is not smaller
RECURSIVE InsertByScore(_, _)
InsertByScore(sorted, x) ==
    IF sorted = <<>> THEN <<x>>
    ELSE IF ~KeyLess(SortKey(Head(sorted)), SortKey(x))
        THEN <<Head(sorted)>> \o InsertByScore(Tail(sorted), x)
        ELSE <<x>> \o sorted
RECURSIVE SortByScore(_)
SortByScore(list) ==
    IF list = <<>> THEN <<>>
    ELSE InsertByScore(SortByScore(SubSeq(list, 1, Len(list) - 1)),
                       list[Len(list)])

\* The enriched JobRecords of jobs_with_descriptions.json
JobIdNames == <<"j1", "j2", "j3", "j4", "j5", "j6", "j7", "j8">>
BaseJob(k) ==
    [job_id |-> JobIdNames[k], url |-> JobUrl(JobIdNames[k]),
     title |-> "Dev", company |-> None, location |-> None, timestamp |-> k]
Boilerplate == <<"Show", " ", "more", " ", "a", " ", "show", " ", "LESS">>
Descriptions ==
    {EmptyText, <<" ">>, Boilerplate, <<"a", " ">> \o Boilerplate \o <<"\n", "b">>}
EnrichedVariants(k) ==
    {BaseJob(k)} \cup {[description |-> d] @@ BaseJob(k) : d \in Descriptions}
MatchInputs ==
    UNION {{f \in [1..n -> UNION {EnrichedVariants(k) : k \in 1..n}] :
                \A k \in 1..n : f[k] \in EnrichedVariants(k)} : n \in 0..MaxJobs}

MatchInit ==
    /\ jobs \in MatchInputs
    /\ mi = 0
    /\ results = <<>>
    /\ inference = <<>>
    /\ mpc = "loop"

\* one iteration whose cleaned description is empty: continue
AnalyzeSkip ==
    /\ mpc = "loop"
    /\ mi < Len(jobs)
    /\ clean_text(Get(jobs[mi + 1], "description", EmptyText)) = EmptyText
    /\ mi' = mi + 1
    /\ inference' = Append(inference, [kind |-> "skipped"])
    /\ UNCHANGED <<jobs, results, mpc>>
    /\ UNCHANGED <<enrichVars, discVars, loginVars, appVars, reportVars>>

\* one iteration with a description: score it and append the analysis
AnalyzeItem ==
    /\ mpc = "loop"
    /\ mi < Len(jobs)
    /\ clean_text(Get(jobs[mi + 1], "description", EmptyText)) # EmptyText
    /\ \E outcome \in InferenceOutcomes :
        LET job == jobs[mi + 1]
            analysis == calculate_match_score(outcome,
                            Get(job, "title", "No title"),
                            Get(job, "company", "No company"), mi + 1)
        IN  /\ results' = Append(results, WithJob(analysis, job))
            /\ inference' = Append(inference, outcome)
    /\ mi' = mi + 1
    /\ UNCHANGED <<jobs, mpc>>
    /\ UNCHANGED <<enrichVars, discVars, loginVars, appVars, reportVars>>

\* after the loop: results.sort(...) and the return
SortAndReturn ==
    /\ mpc = "loop"
    /\ mi = Len(jobs)
    /\ ~SortRaises(results)
    /\ results' = SortByScore(results)
    /\ mpc' = "returned"
    /\ UNCHANGED <<jobs, mi, inference>>
    /\ UNCHANGED <<enrichVars, discVars, loginVars, appVars, reportVars>>

\* after the loop: results.sort(...) raises TypeError, which nothing catches
SortFails ==
    /\ mpc = "loop"
    /\ mi = Len(jobs)
    /\ SortRaises(results)
    /\ mpc' = "raised"
    /\ UNCHANGED <<jobs, mi, results, inference>>
    /\ UNCHANGED <<enrichVars, discVars, loginVars, appVars, reportVars>>

MatchNext == AnalyzeSkip \/ AnalyzeItem \/ SortAndReturn \/ SortFails

----------------------------------------------------------------------------
(* Discovery: get_jobs.py *)

\* The search: its job ids are ranked; the page shows the first of them as
\* cards, in rank order, and the others are hidden until the page reveals
\* them (lazy loading on scroll, the "more" button).
SearchIds(n) == {JobIdNames[k] : k \in 1..n}
FirstIds(n) == [k \in 1..n |-> JobIdNames[k]]
\* the page after it has revealed r more ids
Reveal(shown, r) == FirstIds(Len(shown) + r)
\* the ids the hidden ones leave after r of them are revealed
StillHidden(shown, hid, r) == hid \ Range(Reveal(shown, r))

\* What ensure_logged_in meets: whether each strategy, if tried, establishes
\* the login, and whether credentials were given
LoginCases ==
    [cookies : BOOLEAN, credentials : BOOLEAN, auto : BOOLEAN, manual : BOOLEAN]

\* ensure_logged_in: the value returned, which is also what it leaves in
\* self.is_logged_in (every strategy sets the flag exactly when it succeeds)
ensure_logged_in(logged_in, c) ==
    \/ logged_in
    \/ c.cookies
    \/ (c.credentials /\ c.auto)
    \/ c.manual

\* get_job_ids_from_page: the data-job-id of the cards, without repetition,
\* then the currentJobId of the URL if it is not among them; an exception
\* while the cards are read leaves the ids read so far
get_job_ids_from_page(shown, selected, read) ==
    IF read < Len(shown) THEN SubSeq(shown, 1, read)
    ELSE IF selected # None /\ selected \notin Range(shown)
        THEN Append(shown, selected)
        ELSE shown

\* What get_job_info meets for one id
InfoCases == {"resolved", "unresolved", "click_failed"}

\* a plausible slip: the except branch returns None
get_job_info_NoneOnError(job_id, case, now) ==
    IF case = "click_failed" THEN <<>>
    ELSE <<[job_id |-> job_id, url |-> JobUrl(job_id), timestamp |-> now,
            title |-> IF case = "resolved" THEN "Dev" ELSE None,
            company |-> IF case = "resolved" THEN "Acme" ELSE None,
            location |-> IF case = "resolved" THEN "Berlin" ELSE None]>>

\* a plausible slip: an id with no detail at all gives no record
get_job_info_DropsUnresolved(job_id, case, now) ==
    IF case \in {"click_failed", "unresolved"} THEN <<>>
    ELSE <<[job_id |-> job_id, url |-> JobUrl(job_id), timestamp |-> now,
            title |-> "Dev", company |-> "Acme", location |-> "Berlin"]>>

\* get_job_info: always a record; each detail is None when its element is
\* not found, and all are None when going to the job raised
get_job_info(job_id, case, now) ==
    IF case = "click_failed"
        THEN <<[job_id |-> job_id, url |-> JobUrl(job_id),
                title |-> None, company |-> None, location |-> None,
                timestamp |-> now]>>
    ELSE <<[job_id |-> job_id, url |-> JobUrl(job_id), timestamp |-> now,
            title |-> IF case = "resolved" THEN "Dev" ELSE None,
            company |-> IF case = "resolved" THEN "Acme" ELSE None,
            location |-> IF case = "resolved" THEN "Berlin" ELSE None]>>

\* plausible slips: the test of line 371 without its quota half, and
\* without its seen half
ShouldCollect_NoQuota(job_id, seen, collected, quota) == job_id \notin seen
ShouldCollect_NoSeen(job_id, seen, collected, quota) == Len(collected) < quota

\* if job_id not in seen_job_ids and len(collected_jobs) < max_jobs
ShouldCollect(job_id, seen, collected, quota) ==
    job_id \notin seen /\ Len(collected) < quota

\* click_next_job without an exception: whether there is a card to click,
\* and the position of that card
NextIndex(shown, selected) ==
    IF \E k \in 1..Len(shown) : shown[k] = selected
        THEN 1 + CHOOSE k \in 1..Len(shown) : shown[k] = selected
        ELSE 1
CanClickNext(shown, selected) ==
    Len(shown) > 1 /\ NextIndex(shown, selected) <= Len(shown)

DiscInit ==
    /\ is_logged_in = FALSE
    /\ max_jobs \in 0..MaxQuota
    /\ collected_jobs = <<>>
    /\ seen_job_ids = {}
    /\ current_job_ids = <<>>
    /\ cur = 0
    /\ \E total \in 0..NumIds : \E shown \in 0..total :
        /\ page = FirstIds(shown)
        /\ hidden = SearchIds(total) \ SearchIds(shown)
        /\ current_job \in {None} \cup SearchIds(total)
    /\ views = {}
    /\ steps = 0
    /\ dpc = "login"

\* no strategy logs in: return []
DiscLoginFails ==
    /\ dpc = "login"
    /\ \E c \in LoginCases :
        /\ ~ensure_logged_in(is_logged_in, c)
        /\ is_logged_in' = ensure_logged_in(is_logged_in, c)
    /\ dpc' = "returned"
    /\ UNCHANGED <<max_jobs, collected_jobs, seen_job_ids, current_job_ids, cur,
                   page, hidden, current_job, views, steps>>
    /\ UNCHANGED <<enrichVars, matchVars, loginVars, appVars, reportVars>>

\* a strategy logs in: go to the search URL
DiscLoginOk ==
    /\ dpc = "login"
    /\ \E c \in LoginCases :
        /\ ensure_logged_in(is_logged_in, c)
        /\ is_logged_in' = ensure_logged_in(is_logged_in, c)
    /\ dpc' = "while"
    /\ UNCHANGED <<max_jobs, collected_jobs, seen_job_ids, current_job_ids, cur,
                   page, hidden, current_job, views, steps>>
    /\ UNCHANGED <<enrichVars, matchVars, loginVars, appVars, reportVars>>

\* the while test holds: read the ids of the page
DiscRead ==
    /\ dpc = "while"
    /\ Len(collected_jobs) < max_jobs
    /\ steps < MaxSteps
    /\ \E read \in 0..Len(page) :
        /\ current_job_ids' = get_job_ids_from_page(page, current_job, read)
        /\ views' = views \cup Range(current_job_ids')
    /\ cur' = 1
    /\ steps' = steps + 1
    /\ dpc' = "for"
    /\ UNCHANGED <<is_logged_in, max_jobs, collected_jobs, seen_job_ids,
                   page, hidden, current_job>>
    /\ UNCHANGED <<enrichVars, matchVars, loginVars, appVars, reportVars>>

\* the while test fails: extend self.collected_jobs and return
DiscQuotaMet ==
    /\ dpc = "while"
    /\ ~(Len(collected_jobs) < max_jobs)
    /\ dpc' = "returned"
    /\ UNCHANGED <<is_logged_in, max_jobs, collected_jobs, seen_job_ids,
                   current_job_ids, cur, page, hidden, current_job, views, steps>>
    /\ UNCHANGED <<enrichVars, matchVars, loginVars, appVars, reportVars>>

\* one id of the for loop that passes the test: get its info and record it
DiscCollect ==
    /\ dpc = "for"
    /\ cur <= Len(current_job_ids)
    /\ ShouldCollect(current_job_ids[cur], seen_job_ids, collected_jobs, max_jobs)
    /\ \E case \in InfoCases :
        LET job_id == current_job_ids[cur]
            job_info == get_job_info(job_id, case, Len(collected_jobs) + 1)
        IN  /\ IF job_info # <<>>
                 THEN /\ collected_jobs' = Append(collected_jobs, job_info[1])
                      /\ seen_job_ids' = seen_job_ids \cup {job_id}
                 ELSE UNCHANGED <<collected_jobs, seen_job_ids>>
            /\ current_job' = IF case = "click_failed" THEN current_job ELSE job_id
    /\ cur' = cur + 1
    /\ UNCHANGED <<is_logged_in, max_jobs, current_job_ids, page, hidden,
                   views, steps, dpc>>
    /\ UNCHANGED <<enrichVars, matchVars, loginVars, appVars, reportVars>>

\* one id of the for loop that fails the test
DiscSkip ==
    /\ dpc = "for"
    /\ cur <= Len(current_job_ids)
    /\ ~ShouldCollect(current_job_ids[cur], seen_job_ids, collected_jobs, max_jobs)
    /\ cur' = cur + 1
    /\ UNCHANGED <<is_logged_in, max_jobs, collected_jobs, seen_job_ids,
                   current_job_ids, page, hidden, current_job, views, steps, dpc>>
    /\ UNCHANGED <<enrichVars, matchVars, loginVars, appVars, reportVars>>

\* scroll_to_load_more_jobs returns True: the "more" button was clicked;
\* the scroll and the click may each have revealed ids
DiscScrollTrue ==
    /\ dpc = "for"
    /\ cur > Len(current_job_ids)
    /\ \E r \in 0..Cardinality(hidden) :
        /\ page' = Reveal(page, r)
        /\ hidden' = StillHidden(page, hidden, r)
    /\ dpc' = "while"
    /\ UNCHANGED <<is_logged_in, max_jobs, collected_jobs, seen_job_ids,
                   current_job_ids, cur, current_job, views, steps>>
    /\ UNCHANGED <<enrichVars, matchVars, loginVars, appVars, reportVars>>

\* scroll_to_load_more_jobs returns False: the list was not found, or the
\* button is missing or disabled; the scroll may have revealed ids
DiscScrollFalse ==
    /\ dpc = "for"
    /\ cur > Len(current_job_ids)
    /\ \E r \in 0..Cardinality(hidden) :
        /\ page' = Reveal(page, r)
        /\ hidden' = StillHidden(page, hidden, r)
    /\ dpc' = "next"
    /\ UNCHANGED <<is_logged_in, max_jobs, collected_jobs, seen_job_ids,
                   current_job_ids, cur, current_job, views, steps>>
    /\ UNCHANGED <<enrichVars, matchVars, loginVars, appVars, reportVars>>

\* click_next_job returns True: the card after the selected one is clicked
DiscClickNextTrue ==
    /\ dpc = "next"
    /\ CanClickNext(page, current_job)
    /\ current_job' = page[NextIndex(page, current_job)]
    /\ dpc' = "while"
    /\ UNCHANGED <<is_logged_in, max_jobs, collected_jobs, seen_job_ids,
                   current_job_ids, cur, page, hidden, views, steps>>
    /\ UNCHANGED <<enrichVars, matchVars, loginVars, appVars, reportVars>>

\* click_next_job returns False: at most one card, no card after the
\* selected one, or an exception; break and return
DiscClickNextFalse ==
    /\ dpc = "next"
    /\ dpc' = "returned"
    /\ UNCHANGED <<is_logged_in, max_jobs, collected_jobs, seen_job_ids,
                   current_job_ids, cur, page, hidden, current_job, views, steps>>
    /\ UNCHANGED <<enrichVars, matchVars, loginVars, appVars, reportVars>>

\* the while test holds, however many iterations there have been
DiscReadAgain ==
    /\ dpc = "while"
    /\ Len(collected_jobs) < max_jobs
    /\ \E read \in 0..Len(page) :
        /\ current_job_ids' = get_job_ids_from_page(page, current_job, read)
        /\ views' = views \cup Range(current_job_ids')
    /\ cur' = 1
    /\ dpc' = "for"
    /\ UNCHANGED <<is_logged_in, max_jobs, collected_jobs, seen_job_ids,
                   page, hidden, current_job, steps>>
    /\ UNCHANGED <<enrichVars, matchVars, loginVars, appVars, reportVars>>

DiscNext ==
    \/ DiscLoginFails \/ DiscLoginOk \/ DiscRead \/ DiscQuotaMet
    \/ DiscCollect \/ DiscSkip \/ DiscScrollTrue \/ DiscScrollFalse
    \/ DiscClickNextTrue \/ DiscClickNextFalse

----------------------------------------------------------------------------
(* Authentication: ensure_logged_in of get_jobs.py, one action per strategy *)

\* What each strategy can meet.  use_cookies_login: the file is missing, an
\* exception, the page after the refresh is not a logged-in page, or it is.
CookieOutcomes(file_exists) ==
    IF file_exists THEN {"error", "not_logged_in", "logged_in"}
    ELSE {"file_not_found"}
\* auto_login: an exception, or the URL read after the submission is or is
\* not a logged-in page
AutoOutcomes == {"error", "rejected", "logged_in"}
\* manual_login_prompt: the page is verified as logged in, it is not, or the
\* verification raises, in which case the login is assumed
ManualOutcomes == {"logged_in", "not_verified", "error"}

\* the value each strategy returns; it sets self.is_logged_in exactly when
\* it returns True
use_cookies_login(outcome) == outcome = "logged_in"
auto_login(outcome) == outcome = "logged_in"
manual_login_prompt(outcome) == outcome # "not_verified"

\* a plausible slip: a successful strategy does not return, and the next
\* strategy is tried all the same
AfterStrategy_NoShortCircuit(strategy, ok) ==
    CASE strategy = "cookies" -> "credentials"
      [] strategy = "credentials" -> "manual"
      [] OTHER -> "returned"

\* where ensure_logged_in goes after a strategy: "return True" when it
\* succeeded, else the next method, and "return False" after the last
AfterStrategy(strategy, ok) ==
    IF ok THEN "returned"
    ELSE CASE strategy = "cookies" -> "credentials"
           [] strategy = "credentials" -> "manual"
           [] OTHER -> "returned"

Attempt(strategy, outcome, ok) ==
    [strategy |-> strategy, outcome |-> outcome, ok |-> ok]

LoginInit ==
    /\ is_logged_in \in BOOLEAN
    /\ login_args \in [cookies_file : BOOLEAN, credentials : BOOLEAN]
    /\ cookie_file \in BOOLEAN
    /\ attempts = <<>>
    /\ login_result = <<>>
    /\ lpc = "cookies"

\* if self.is_logged_in: return True
LoginAlready ==
    /\ lpc = "cookies"
    /\ attempts = <<>>
    /\ is_logged_in
    /\ login_result' = <<TRUE>>
    /\ lpc' = "returned"
    /\ UNCHANGED <<is_logged_in, login_args, cookie_file, attempts>>
    /\ UNCHANGED <<enrichVars, matchVars, discRest, appVars, reportVars>>

\* method 1, when cookies_file is given
LoginCookies ==
    /\ lpc = "cookies"
    /\ ~is_logged_in
    /\ login_args.cookies_file
    /\ \E outcome \in CookieOutcomes(cookie_file) :
        LET ok == use_cookies_login(outcome)
        IN  /\ attempts' = Append(attempts, Attempt("cookies", outcome, ok))
            /\ is_logged_in' = ok
            /\ lpc' = AfterStrategy("cookies", ok)
            /\ login_result' = IF lpc' = "returned" THEN <<ok>> ELSE <<>>
    /\ UNCHANGED <<login_args, cookie_file>>
    /\ UNCHANGED <<enrichVars, matchVars, discRest, appVars, reportVars>>

\* method 1 is passed over without cookies_file
LoginNoCookies ==
    /\ lpc = "cookies"
    /\ ~is_logged_in
    /\ ~login_args.cookies_file
    /\ lpc' = "credentials"
    /\ UNCHANGED <<is_logged_in, login_args, cookie_file, attempts, login_result>>
    /\ UNCHANGED <<enrichVars, matchVars, discRest, appVars, reportVars>>

\* method 2, when email and password are given; save_cookies after a
\* success writes the cookie file unless it fails
LoginAuto ==
    /\ lpc = "credentials"
    /\ login_args.credentials
    /\ \E outcome \in AutoOutcomes, saved \in BOOLEAN :
        LET ok == auto_login(outcome)
        IN  /\ attempts' = Append(attempts, Attempt("credentials", outcome, ok))
            /\ is_logged_in' = (is_logged_in \/ ok)
            /\ cookie_file' = (cookie_file \/ (ok /\ saved))
            /\ lpc' = AfterStrategy("credentials", ok)
            /\ login_result' = IF lpc' = "returned" THEN <<ok>> ELSE <<>>
    /\ UNCHANGED login_args
    /\ UNCHANGED <<enrichVars, matchVars, discRest, appVars, reportVars>>

\* method 2 is passed over without email and password
LoginNoCredentials ==
    /\ lpc = "credentials"
    /\ ~login_args.credentials
    /\ lpc' = "manual"
    /\ UNCHANGED <<is_logged_in, login_args, cookie_file, attempts, login_result>>
    /\ UNCHANGED <<enrichVars, matchVars, discRest, appVars, reportVars>>

\* method 3, and the return of its value
LoginManual ==
    /\ lpc = "manual"
    /\ \E outcome \in ManualOutcomes, saved \in BOOLEAN :
        LET ok == manual_login_prompt(outcome)
        IN  /\ attempts' = Append(attempts, Attempt("manual", outcome, ok))
            /\ is_logged_in' = (is_logged_in \/ ok)
            /\ cookie_file' = (cookie_file \/ (ok /\ saved))
            /\ lpc' = AfterStrategy("manual", ok)
            /\ login_result' = <<ok>>
    /\ UNCHANGED login_args
    /\ UNCHANGED <<enrichVars, matchVars, discRest, appVars, reportVars>>

LoginNext ==
    \/ LoginAlready \/ LoginCookies \/ LoginNoCookies
    \/ LoginAuto \/ LoginNoCredentials \/ LoginManual

----------------------------------------------------------------------------
(* Control Surface: app.py.  The requests are served by threads of their   *)
(* own and every collection or analysis runs on a background thread, so    *)
(* the steps of all of them interleave.  A stage file is given by whether  *)
(* it exists and by the number of records it holds.  The results entry of  *)
(* process_status is <<>> for None and a tuple of a key and a count else.  *)

CollectedFile == "collected_jobs.json"
EnrichedFile == "jobs_with_descriptions.json"
ResultsFile == "analysis_results.json"
ReportFile == "job_match_report.txt"
ResumeFile == "resume_data.json"

\* files_to_remove of reset_process, in its order
files_to_remove ==
    <<CollectedFile, EnrichedFile, ResultsFile, ReportFile, ResumeFile>>
StageFiles == Range(files_to_remove)

Absent == [exists |-> FALSE, n |-> 0]
Holding(n) == [exists |-> TRUE, n |-> n]

\* the initial process_status, which reset_process assigns again
InitialStatus ==
    [status |-> "idle", step |-> "", progress |-> 0, message |-> "",
     error |-> None, results |-> <<>>]

\* process_status.update(changes)
Update(status, changes) == changes @@ status

\* a plausible slip: the handler records the message and leaves the status
ErrorUpdate_KeepsStatus(status, e, what) ==
    Update(status, [error |-> e, message |-> what])

\* the except branch of a background run: status 'error', error str(e),
\* message a text that ends with str(e)
ErrorUpdate(status, e, what) ==
    Update(status, [status |-> "error", error |-> e, message |-> what])

\* a thread slot that no run has taken, and a run as it starts
NoRun ==
    [kind |-> "none", pc |-> "none", auth |-> "unknown", found |-> FALSE,
     n |-> 0, i |-> 0]
NewRun(kind) == [NoRun EXCEPT !.kind = kind, !.pc = "begin"]
FreeSlots == {r \in DOMAIN runs : runs[r].kind = "none"}
NextSlot == CHOOSE r \in FreeSlots : \A o \in FreeSlots : r <= o
Active(r) == runs[r].kind # "none" /\ runs[r].pc \notin {"done", "failed"}

AppInit ==
    /\ process_status = InitialStatus
    /\ files = [f \in StageFiles |-> Absent]
    /\ runs = [r \in 1..MaxRuns |-> NoRun]
    /\ reset_pc = 0
    /\ upload_pc = "none"
    /\ requests = 0

\* POST /api/collect-jobs without a url: the reply is 400, nothing changes
CollectRejected ==
    /\ UNCHANGED <<process_status, files, runs, reset_pc, upload_pc, requests>>
    /\ UNCHANGED <<enrichVars, matchVars, discVars, loginVars, reportVars>>

\* POST /api/collect-jobs with a url: the thread is started, whatever runs
CollectStarted ==
    /\ FreeSlots # {}
    /\ requests < MaxRequests
    /\ requests' = requests + 1
    /\ runs' = [runs EXCEPT ![NextSlot] = NewRun("collect")]
    /\ UNCHANGED <<process_status, files, reset_pc, upload_pc>>
    /\ UNCHANGED <<enrichVars, matchVars, discVars, loginVars, reportVars>>

\* POST /api/analyze-matches while resume_data.json or
\* jobs_with_descriptions.json is missing: the reply is 400, no thread is
\* started and nothing changes
AnalyzeRejected ==
    /\ ~files[ResumeFile].exists \/ ~files[EnrichedFile].exists
    /\ UNCHANGED <<process_status, files, runs, reset_pc, upload_pc, requests>>
    /\ UNCHANGED <<enrichVars, matchVars, discVars, loginVars, reportVars>>

\* POST /api/analyze-matches with both files: the thread is started
AnalyzeStarted ==
    /\ files[ResumeFile].exists /\ files[EnrichedFile].exists
    /\ FreeSlots # {}
    /\ requests < MaxRequests
    /\ requests' = requests + 1
    /\ runs' = [runs EXCEPT ![NextSlot] = NewRun("analyze")]
    /\ UNCHANGED <<process_status, files, reset_pc, upload_pc>>
    /\ UNCHANGED <<enrichVars, matchVars, discVars, loginVars, reportVars>>

\* POST /api/reset arrives
ResetBegin ==
    /\ reset_pc = 0
    /\ requests < MaxRequests
    /\ requests' = requests + 1
    /\ reset_pc' = 1
    /\ UNCHANGED <<process_status, files, runs, upload_pc>>
    /\ UNCHANGED <<enrichVars, matchVars, discVars, loginVars, reportVars>>

\* one iteration of "for file_path in files_to_remove"
ResetRemove ==
    /\ reset_pc \in 1..Len(files_to_remove)
    /\ files' = [files EXCEPT ![files_to_remove[reset_pc]] = Absent]
    /\ reset_pc' = reset_pc + 1
    /\ UNCHANGED <<process_status, runs, upload_pc, requests>>
    /\ UNCHANGED <<enrichVars, matchVars, discVars, loginVars, reportVars>>

\* process_status = {...}, after which the reset returns
ResetAssign ==
    /\ reset_pc = Len(files_to_remove) + 1
    /\ process_status' = InitialStatus
    /\ reset_pc' = 0
    /\ UNCHANGED <<files, runs, upload_pc, requests>>
    /\ UNCHANGED <<enrichVars, matchVars, discVars, loginVars, reportVars>>

\* POST /api/upload-resume with a PDF: the file is stored, first update
UploadBegin ==
    /\ upload_pc = "none"
    /\ requests < MaxRequests
    /\ requests' = requests + 1
    /\ process_status' = Update(process_status,
            [status |-> "processing", step |-> "Extracting text from PDF",
             progress |-> 25, message |-> "Processing your resume..."])
    /\ upload_pc' = "extract"
    /\ UNCHANGED <<files, runs, reset_pc>>
    /\ UNCHANGED <<enrichVars, matchVars, discVars, loginVars, reportVars>>

\* extract_text_from_pdf returns, second update
UploadExtracts ==
    /\ upload_pc = "extract"
    /\ process_status' = Update(process_status,
            [step |-> "Analyzing resume content", progress |-> 50,
             message |-> "Extracting key information..."])
    /\ upload_pc' = "save"
    /\ UNCHANGED <<files, runs, reset_pc, requests>>
    /\ UNCHANGED <<enrichVars, matchVars, discVars, loginVars, reportVars>>

\* extract_text_from_pdf raises: the except branch
UploadFails ==
    /\ upload_pc = "extract"
    /\ process_status' =
            ErrorUpdate(process_status, "PdfReadError", "Error processing resume: ...")
    /\ upload_pc' = "none"
    /\ UNCHANGED <<files, runs, reset_pc, requests>>
    /\ UNCHANGED <<enrichVars, matchVars, discVars, loginVars, reportVars>>

\* get_info_from_text (which returns a dict on every path) and the dump of
\* resume_data.json
UploadSaves ==
    /\ upload_pc = "save"
    /\ files' = [files EXCEPT ![ResumeFile] = Holding(1)]
    /\ upload_pc' = "complete"
    /\ UNCHANGED <<process_status, runs, reset_pc, requests>>
    /\ UNCHANGED <<enrichVars, matchVars, discVars, loginVars, reportVars>>

\* the last update, after which the upload returns
UploadCompletes ==
    /\ upload_pc = "complete"
    /\ process_status' = Update(process_status,
            [status |-> "completed", step |-> "Resume processed",
             progress |-> 100,
             message |-> "Resume uploaded and processed successfully!"])
    /\ upload_pc' = "none"
    /\ UNCHANGED <<files, runs, reset_pc, requests>>
    /\ UNCHANGED <<enrichVars, matchVars, discVars, loginVars, reportVars>>

(* collect_jobs_background *)

AtStep(r, kind, pc) == runs[r].kind = kind /\ runs[r].pc = pc

CollectBegins ==
    \E r \in DOMAIN runs :
        /\ AtStep(r, "collect", "begin")
        /\ process_status' = Update(process_status,
                [status |-> "processing",
                 step |-> "Opening browser for LinkedIn login", progress |-> 10,
                 message |-> "Please complete LinkedIn login in the browser window..."])
        /\ runs' = [runs EXCEPT ![r].pc = "discover"]
        /\ UNCHANGED <<files, reset_pc, upload_pc, requests>>
        /\ UNCHANGED <<enrichVars, matchVars, discVars, loginVars, reportVars>>

\* the lengths of the list collect_linkedin_job_ids returns: a short list,
\* or one that reaches past the first checkpoint of the enrichment
FoundCounts == (0..MaxFound) \cup {CheckpointEvery + ExtraLong}

\* collect_linkedin_job_ids returns: [] when no strategy logged in, else the
\* jobs found; then the update of line 196
CollectDiscovers ==
    \E r \in DOMAIN runs :
        /\ AtStep(r, "collect", "discover")
        /\ \E auth \in {"ok", "failed"}, n \in FoundCounts :
            /\ auth = "failed" => n = 0
            /\ runs' = [runs EXCEPT ![r].pc = "save", ![r].auth = auth, ![r].n = n]
        /\ process_status' = Update(process_status,
                [step |-> "Saving collected jobs", progress |-> 70,
                 message |-> "Collected jobs, saving data..."])
        /\ UNCHANGED <<files, reset_pc, upload_pc, requests>>
        /\ UNCHANGED <<enrichVars, matchVars, discVars, loginVars, reportVars>>

\* collect_linkedin_job_ids raises (the browser cannot be started, the
\* navigation fails): the except branch
CollectFails ==
    \E r \in DOMAIN runs :
        /\ AtStep(r, "collect", "discover")
        /\ process_status' =
                ErrorUpdate(process_status, "WebDriverException",
                            "Error collecting jobs: ...")
        /\ runs' = [runs EXCEPT ![r].pc = "failed"]
        /\ UNCHANGED <<files, reset_pc, upload_pc, requests>>
        /\ UNCHANGED <<enrichVars, matchVars, discVars, loginVars, reportVars>>

\* json.dump(jobs, open("collected_jobs.json", "w"))
CollectSaves ==
    \E r \in DOMAIN runs :
        /\ AtStep(r, "collect", "save")
        /\ files' = [files EXCEPT ![CollectedFile] = Holding(runs[r].n)]
        /\ runs' = [runs EXCEPT ![r].pc = "fetching"]
        /\ UNCHANGED <<process_status, reset_pc, upload_pc, requests>>
        /\ UNCHANGED <<enrichVars, matchVars, discVars, loginVars, reportVars>>

CollectFetching ==
    \E r \in DOMAIN runs :
        /\ AtStep(r, "collect", "fetching")
        /\ process_status' = Update(process_status,
                [step |-> "Fetching job descriptions", progress |-> 80,
                 message |-> "Fetching detailed job descriptions..."])
        /\ runs' = [runs EXCEPT ![r].pc = "load"]
        /\ UNCHANGED <<files, reset_pc, upload_pc, requests>>
        /\ UNCHANGED <<enrichVars, matchVars, discVars, loginVars, reportVars>>

\* jobs_data = load_collected_jobs("collected_jobs.json"), [] when the file
\* is missing, and the call of fetch_all_job_descriptions with it
CollectLoads ==
    \E r \in DOMAIN runs :
        /\ AtStep(r, "collect", "load")
        /\ runs' = [runs EXCEPT ![r].pc = "enrich",
                                ![r].found = files[CollectedFile].exists,
                                ![r].n = files[CollectedFile].n,
                                ![r].i = 0]
        /\ UNCHANGED <<process_status, files, reset_pc, upload_pc, requests>>
        /\ UNCHANGED <<enrichVars, matchVars, discVars, loginVars, reportVars>>

\* one iteration of the loop of fetch_all_job_descriptions, with its
\* checkpoint
CollectEnrichItem ==
    \E r \in DOMAIN runs :
        /\ AtStep(r, "collect", "enrich")
        /\ runs[r].i < runs[r].n
        /\ runs' = [runs EXCEPT ![r].i = runs[r].i + 1]
        /\ files' = IF (runs[r].i + 1) % CheckpointEvery = 0
                        THEN [files EXCEPT ![EnrichedFile] = Holding(runs[r].i + 1)]
                        ELSE files
        /\ UNCHANGED <<process_status, reset_pc, upload_pc, requests>>
        /\ UNCHANGED <<enrichVars, matchVars, discVars, loginVars, reportVars>>

\* the final save of fetch_all_job_descriptions
CollectEnrichSave ==
    \E r \in DOMAIN runs :
        /\ AtStep(r, "collect", "enrich")
        /\ runs[r].i = runs[r].n
        /\ files' = [files EXCEPT ![EnrichedFile] = Holding(runs[r].n)]
        /\ runs' = [runs EXCEPT ![r].pc = "complete"]
        /\ UNCHANGED <<process_status, reset_pc, upload_pc, requests>>
        /\ UNCHANGED <<enrichVars, matchVars, discVars, loginVars, reportVars>>

CollectCompletes ==
    \E r \in DOMAIN runs :
        /\ AtStep(r, "collect", "complete")
        /\ process_status' = Update(process_status,
                [status |-> "completed", step |-> "Jobs collected successfully",
                 progress |-> 100,
                 message |-> "Successfully collected jobs with descriptions!",
                 results |-> <<"job_count", runs[r].n>>])
        /\ runs' = [runs EXCEPT ![r].pc = "done"]
        /\ UNCHANGED <<files, reset_pc, upload_pc, requests>>
        /\ UNCHANGED <<enrichVars, matchVars, discVars, loginVars, reportVars>>

(* analyze_matches_background *)

AnalysisBegins ==
    \E r \in DOMAIN runs :
        /\ AtStep(r, "analyze", "begin")
        /\ process_status' = Update(process_status,
                [status |-> "processing", step |-> "Loading resume and job data",
                 progress |-> 10, message |-> "Preparing analysis..."])
        /\ runs' = [runs EXCEPT ![r].pc = "resume"]
        /\ UNCHANGED <<files, reset_pc, upload_pc, requests>>
        /\ UNCHANGED <<enrichVars, matchVars, discVars, loginVars, reportVars>>

\* resume_data.json is read, then the update of line 280
AnalysisLoadsResume ==
    \E r \in DOMAIN runs :
        /\ AtStep(r, "analyze", "resume")
        /\ files[ResumeFile].exists
        /\ process_status' = Update(process_status,
                [step |-> "Initializing AI matcher", progress |-> 20,
                 message |-> "Setting up AI analysis..."])
        /\ runs' = [runs EXCEPT ![r].pc = "init"]
        /\ UNCHANGED <<files, reset_pc, upload_pc, requests>>
        /\ UNCHANGED <<enrichVars, matchVars, discVars, loginVars, reportVars>>

\* ResumeJobMatcher() is built, then the update of line 289
AnalysisInits ==
    \E r \in DOMAIN runs :
        /\ AtStep(r, "analyze", "init")
        /\ process_status' = Update(process_status,
                [step |-> "Analyzing job matches", progress |-> 30,
                 message |-> "Analyzing matches with AI..."])
        /\ runs' = [runs EXCEPT ![r].pc = "analyze"]
        /\ UNCHANGED <<files, reset_pc, upload_pc, requests>>
        /\ UNCHANGED <<enrichVars, matchVars, discVars, loginVars, reportVars>>

\* analyze_all_jobs reads jobs_with_descriptions.json and returns one
\* analysis for each of its jobs that has a description
AnalysisAnalyzes ==
    \E r \in DOMAIN runs :
        /\ AtStep(r, "analyze", "analyze")
        /\ files[EnrichedFile].exists
        /\ \E n \in 0..files[EnrichedFile].n :
            runs' = [runs EXCEPT ![r].pc = "progress", ![r].found = TRUE,
                                 ![r].n = n]
        /\ UNCHANGED <<process_status, files, reset_pc, upload_pc, requests>>
        /\ UNCHANGED <<enrichVars, matchVars, discVars, loginVars, reportVars>>

AnalysisProgress ==
    \E r \in DOMAIN runs :
        /\ AtStep(r, "analyze", "progress")
        /\ process_status' = Update(process_status,
                [step |-> "Generating reports", progress |-> 80,
                 message |-> "Creating summary reports..."])
        /\ runs' = [runs EXCEPT ![r].pc = "save"]
        /\ UNCHANGED <<files, reset_pc, upload_pc, requests>>
        /\ UNCHANGED <<enrichVars, matchVars, discVars, loginVars, reportVars>>

\* json.dump(results, open("analysis_results.json", "w"))
AnalysisSaves ==
    \E r \in DOMAIN runs :
        /\ AtStep(r, "analyze", "save")
        /\ files' = [files EXCEPT ![ResultsFile] = Holding(runs[r].n)]
        /\ runs' = [runs EXCEPT ![r].pc = "report"]
        /\ UNCHANGED <<process_status, reset_pc, upload_pc, requests>>
        /\ UNCHANGED <<enrichVars, matchVars, discVars, loginVars, reportVars>>

\* create_summary_report returns and the report is written
AnalysisReports ==
    \E r \in DOMAIN runs :
        /\ AtStep(r, "analyze", "report")
        /\ files' = [files EXCEPT ![ReportFile] = Holding(runs[r].n)]
        /\ runs' = [runs EXCEPT ![r].pc = "complete"]
        /\ UNCHANGED <<process_status, reset_pc, upload_pc, requests>>
        /\ UNCHANGED <<enrichVars, matchVars, discVars, loginVars, reportVars>>

AnalysisCompletes ==
    \E r \in DOMAIN runs :
        /\ AtStep(r, "analyze", "complete")
        /\ process_status' = Update(process_status,
                [status |-> "completed", step |-> "Analysis complete",
                 progress |-> 100,
                 message |-> "Job matching analysis completed successfully!",
                 results |-> <<"total_jobs", runs[r].n>>])
        /\ runs' = [runs EXCEPT ![r].pc = "done"]
        /\ UNCHANGED <<files, reset_pc, upload_pc, requests>>
        /\ UNCHANGED <<enrichVars, matchVars, discVars, loginVars, reportVars>>

\* the exceptions of the try block: a file that is missing when it is
\* opened, no API key for the client, the TypeError of the sort over two or
\* more analyses, and the TypeError of create_summary_report over a score
\* that is not a number
AnalysisRaises(r) ==
    IF runs[r].pc = "resume" /\ ~files[ResumeFile].exists
        THEN {"FileNotFoundError"}
    ELSE IF runs[r].pc = "init" THEN {"OpenAIError"}
    ELSE IF runs[r].pc = "analyze" /\ ~files[EnrichedFile].exists
        THEN {"FileNotFoundError"}
    ELSE IF runs[r].pc = "analyze" /\ files[EnrichedFile].n >= 2
        THEN {"TypeError"}
    ELSE IF runs[r].pc = "report" /\ runs[r].n >= 1 THEN {"TypeError"}
    ELSE {}

\* the except branch
AnalysisFails ==
    \E r \in DOMAIN runs :
        /\ runs[r].kind = "analyze"
        /\ \E e \in AnalysisRaises(r) :
            process_status' =
                ErrorUpdate(process_status, e, "Error during analysis: ...")
        /\ runs' = [runs EXCEPT ![r].pc = "failed"]
        /\ UNCHANGED <<files, reset_pc, upload_pc, requests>>
        /\ UNCHANGED <<enrichVars, matchVars, discVars, loginVars, reportVars>>

AppNext ==
    \/ CollectRejected \/ CollectStarted \/ AnalyzeRejected \/ AnalyzeStarted
    \/ ResetBegin \/ ResetRemove \/ ResetAssign
    \/ UploadBegin \/ UploadExtracts \/ UploadFails \/ UploadSaves
    \/ UploadCompletes
    \/ CollectBegins \/ CollectDiscovers \/ CollectFails \/ CollectSaves
    \/ CollectFetching \/ CollectLoads \/ CollectEnrichItem
    \/ CollectEnrichSave \/ CollectCompletes
    \/ AnalysisBegins \/ AnalysisLoadsResume \/ AnalysisInits
    \/ AnalysisAnalyzes \/ AnalysisProgress \/ AnalysisSaves
    \/ AnalysisReports \/ AnalysisCompletes \/ AnalysisFails

----------------------------------------------------------------------------
(* Reporting: ResumeJobMatcher.create_summary_report *)

RECURSIVE SumVals(_)
\* sum(scores) of numbers
SumVals(scores) ==
    IF scores = <<>> THEN 0 ELSE Head(scores).val + SumVals(Tail(scores))

\* f"{num / den:.1f}" of a quotient that is not negative, as a number of
\* tenths: the nearest tenth, and the even one when two are equally near
\* (such a quotient is a multiple of a quarter for den < 20, which a float
\* holds exactly)
OneDecimal(num, den) ==
    LET q == (10 * num) \div den
        r == (10 * num) % den
    IN  IF 2 * r > den THEN q + 1
        ELSE IF 2 * r = den THEN q + (q % 2)
        ELSE q

\* a plausible slip: a score of exactly 80 is not a high match
IsHighMatch_Above(s) == s.val > 80
\* s >= 80, and 60 <= s < 80
IsHighMatch(s) == s.val >= 80
IsMediumMatch(s) == 60 <= s.val /\ s.val < 80

\* the positions of a list, for len([x for x in list if ...])
Positions(list) == 1..Len(list)

\* the lines the report has for one of the top matches
TopMatch(job) ==
    [score |-> Get(job, "overall_score", JInt(0)),
     title |-> Get(job, "job_title", "No title"),
     company |-> Get(job, "company", "No company"),
     priority |-> Get(job, "priority", "UNKNOWN"),
     job_id |-> Get(job, "job_id", "unknown")]

IsHighPriority(job) == Get(job, "priority", None) = "HIGH"
IsMediumPriority(job) == Get(job, "priority", None) = "MEDIUM"

\* The report as the values its text is made of; now is what datetime.now()
\* gives during the call.  sum() and the comparisons raise TypeError on a
\* score that is not a number.
create_summary_report(list, now) ==
    LET scores == [k \in 1..Len(list) |-> Get(list[k], "overall_score", JInt(0))]
    IN  IF list = <<>> THEN [text |-> "No jobs analyzed."]
        ELSE IF \E k \in 1..Len(scores) : scores[k].type # "int"
            THEN [raised |-> "TypeError"]
        ELSE [generated |-> now,
              total |-> Len(list),
              avg_score |-> OneDecimal(SumVals(scores), Len(scores)),
              high_matches |->
                Cardinality({k \in Positions(scores) : IsHighMatch(scores[k])}),
              medium_matches |->
                Cardinality({k \in Positions(scores) : IsMediumMatch(scores[k])}),
              top |-> [k \in 1..(IF Len(list) < 5 THEN Len(list) ELSE 5) |->
                            TopMatch(list[k])],
              high_priority |->
                Cardinality({k \in Positions(list) : IsHighPriority(list[k])}),
              medium_priority |->
                Cardinality({k \in Positions(list) : IsMediumPriority(list[k])})]

\* the analyses the reports are made of
ReportRecords ==
    {[overall_score |-> JInt(100), priority |-> "HIGH"],
     [overall_score |-> JInt(90), priority |-> "HIGH"],
     [overall_score |-> JInt(80), priority |-> "MEDIUM"],
     [overall_score |-> JInt(79), priority |-> "MEDIUM"],
     [overall_score |-> JInt(70), priority |-> "LOW"],
     [overall_score |-> JInt(60)],
     [overall_score |-> JInt(50), priority |-> "UNKNOWN"],
     [overall_score |-> JStr(85), priority |-> "HIGH"]}

ReportInit ==
    /\ report_input \in SeqsUpTo(ReportRecords, MaxReport)
    /\ clock = 0
    /\ reports = <<>>

\* time passes
ReportTick ==
    /\ clock < MaxClock
    /\ clock' = clock + 1
    /\ UNCHANGED <<report_input, reports>>
    /\ UNCHANGED <<enrichVars, matchVars, discVars, loginVars, appVars>>

\* one call of create_summary_report on the list; two calls are made
ReportCall ==
    /\ Len(reports) < 2
    /\ reports' = Append(reports, create_summary_report(report_input, clock))
    /\ UNCHANGED <<report_input, clock>>
    /\ UNCHANGED <<enrichVars, matchVars, discVars, loginVars, appVars>>

ReportNext == ReportTick \/ ReportCall

----------------------------------------------------------------------------
(* Idle values of the stages a specification does not run *)

EnrichIdle ==
    /\ input_file = NoFile
    /\ jobs_data = <<>>
    /\ ei = 0
    /\ jobs_with_descriptions = <<>>
    /\ output_file = NoFile
    /\ fetched = <<>>
    /\ epc = "idle"
    /\ responses = <<>>
    /\ run = 1
    /\ first_output = NoFile

MatchIdle ==
    /\ jobs = <<>>
    /\ mi = 0
    /\ results = <<>>
    /\ inference = <<>>
    /\ mpc = "idle"

DiscIdle ==
    /\ is_logged_in = FALSE
    /\ max_jobs = 0
    /\ collected_jobs = <<>>
    /\ seen_job_ids = {}
    /\ current_job_ids = <<>>
    /\ cur = 0
    /\ page = <<>>
    /\ hidden = {}
    /\ current_job = None
    /\ views = {}
    /\ steps = 0
    /\ dpc = "idle"

LoginIdle ==
    /\ login_args = [cookies_file |-> FALSE, credentials |-> FALSE]
    /\ cookie_file = FALSE
    /\ attempts = <<>>
    /\ login_result = <<>>
    /\ lpc = "idle"

AppIdle ==
    /\ process_status = InitialStatus
    /\ files = [f \in StageFiles |-> Absent]
    /\ runs = <<>>
    /\ reset_pc = 0
    /\ upload_pc = "idle"
    /\ requests = 0

ReportIdle ==
    /\ report_input = <<>>
    /\ clock = 0
    /\ reports = <<>>

\* the variables of Discovery that the authentication leaves alone
DiscRestIdle ==
    /\ max_jobs = 0
    /\ collected_jobs = <<>>
    /\ seen_job_ids = {}
    /\ current_job_ids = <<>>
    /\ cur = 0
    /\ page = <<>>
    /\ hidden = {}
    /\ current_job = None
    /\ views = {}
    /\ steps = 0
    /\ dpc = "idle"

----------------------------------------------------------------------------
(* The Enrichment stage on its own *)

InitEnrich == EnrichInit /\ MatchIdle /\ DiscIdle /\ LoginIdle /\ AppIdle /\ ReportIdle

SpecEnrich == InitEnrich /\ [][EnrichNext]_vars

(* The Enrichment stage run twice on the same input *)

EnrichNextRerun ==
    \/ EnrichHalts \/ EnrichLoads \/ EnrichLoadsUnguarded
    \/ EnrichItemRaises \/ EnrichItem \/ EnrichFinish \/ EnrichRerun

SpecRerun == InitEnrich /\ [][EnrichNextRerun]_vars

(* Enrichment, or Matching, next to the stage files: Matching starts from
   the jobs of jobs_with_descriptions.json *)

InitMatchFile ==
    /\ MatchInit
    /\ output_file = FileOf(JsonDump(jobs))
    /\ input_file = NoFile
    /\ jobs_data = <<>>
    /\ ei = 0
    /\ jobs_with_descriptions = <<>>
    /\ fetched = <<>>
    /\ epc = "idle"
    /\ responses = <<>>
    /\ run = 1
    /\ first_output = NoFile
    /\ DiscIdle /\ LoginIdle /\ AppIdle /\ ReportIdle

InitStages == InitEnrich \/ InitMatchFile

StagesNext == EnrichNext \/ MatchNext

SpecStages == InitStages /\ [][StagesNext]_vars

(* The Discovery stage on its own *)

InitDisc == DiscInit /\ EnrichIdle /\ MatchIdle /\ LoginIdle /\ AppIdle /\ ReportIdle

SpecDisc == InitDisc /\ [][DiscNext]_vars

(* The Discovery stage with no bound on its iterations; the run always
   takes its next step *)

DiscNextUnbounded ==
    \/ DiscLoginFails \/ DiscLoginOk \/ DiscReadAgain \/ DiscQuotaMet
    \/ DiscCollect \/ DiscSkip \/ DiscScrollTrue \/ DiscScrollFalse
    \/ DiscClickNextTrue \/ DiscClickNextFalse

SpecDiscFair ==
    InitDisc /\ [][DiscNextUnbounded]_vars /\ WF_vars(DiscNextUnbounded)

(* The Matching stage on its own *)

InitMatch == MatchInit /\ EnrichIdle /\ DiscIdle /\ LoginIdle /\ AppIdle /\ ReportIdle

SpecMatch == InitMatch /\ [][MatchNext]_vars

(* ensure_logged_in on its own, called on a new or a logged-in collector *)

InitLogin == LoginInit /\ DiscRestIdle /\ EnrichIdle /\ MatchIdle /\ AppIdle /\ ReportIdle

SpecLogin == InitLogin /\ [][LoginNext]_vars

(* ensure_logged_in step by step, or a discovery that calls it *)

InitSession == InitLogin \/ InitDisc

SessionNext == LoginNext \/ DiscNext

SpecSession == InitSession /\ [][SessionNext]_vars

(* The Control Surface on its own *)

InitApp == AppInit /\ EnrichIdle /\ MatchIdle /\ DiscIdle /\ LoginIdle /\ ReportIdle

SpecApp == InitApp /\ [][AppNext]_vars

(* create_summary_report on its own, called twice on the same list *)

InitReport ==
    ReportInit /\ EnrichIdle /\ MatchIdle /\ DiscIdle /\ LoginIdle /\ AppIdle

SpecReport == InitReport /\ [][ReportNext]_vars

----------------------------------------------------------------------------
(* Properties of the Enrichment stage, checked under SpecEnrich *)

JobIds(list) == [k \in 1..Len(list) |-> list[k].job_id]
AllWellFormed == \A k \in 1..Len(jobs_data) : WellFormed(jobs_data[k])

\* C1: for every input list of JobRecords and every combination of fetch
\* outcomes, the list built so far has one record per processed item with the
\* item's job_id, in input order; the run on JobRecords never raises; and at
\* the return the list has the input's length and job_id sequence, and is
\* what the output file holds.
C1_EnrichmentKeepsJobIds ==
    /\ Len(jobs_with_descriptions) = ei
    /\ ei <= Len(jobs_data)
    /\ JobIds(jobs_with_descriptions) = JobIds(SubSeq(jobs_data, 1, ei))
    /\ AllWellFormed => epc # "raised"
    /\ epc = "done" =>
        /\ ei = Len(jobs_data)
        /\ output_file = SaveFile(jobs_with_descriptions)

\* a returned run over a full-length list with a repeated job_id, in which
\* one fetch failed and another succeeded
C1_Witness ==
    /\ epc = "done"
    /\ Len(jobs_data) = MaxJobs
    /\ \E k, n \in 1..Len(jobs_data) : k # n /\ jobs_data[k] = jobs_data[n]
    /\ \E k \in 1..Len(fetched) : fetched[k] = <<>>
    /\ \E k \in 1..Len(fetched) : fetched[k] # <<>>

\* C8: no exception raised while one item is processed leaves
\* fetch_all_job_descriptions: the run never ends by raising, and it ends
\* with one record per input item and the final save.
C8_ItemErrorNeverAbortsEnrichment ==
    /\ epc # "raised"
    /\ epc = "done" => Len(jobs_with_descriptions) = Len(jobs_data)

\* C10: the record appended for an item whose fetch returned None is the
\* input record itself, and the failed fetch does not stop the loop: the run
\* is at the next item (or at the final save), and raises only at an item
\* that lacks a key.
C10_FailedFetchKeepsOriginal ==
    /\ Len(fetched) = Len(jobs_with_descriptions)
    /\ \A k \in 1..Len(fetched) :
        fetched[k] = <<>> => jobs_with_descriptions[k] = jobs_data[k]
    /\ (ei > 0 /\ fetched[ei] = <<>>) =>
        \/ epc = "loop"
        \/ epc = "done" /\ ei = Len(jobs_data)
        \/ epc = "raised" /\ ~WellFormed(jobs_data[ei + 1])

\* a failed fetch of a record without description, followed by a processed
\* item
C10_Witness ==
    /\ ei >= 2
    /\ fetched[1] = <<>>
    /\ "description" \notin DOMAIN jobs_data[1]
    /\ jobs_with_descriptions[1] = jobs_data[1]
    /\ fetched[2] # <<>>

\* C16, for Enrichment: the process can be killed in any state of the run,
\* and then the result of every item whose processing was completed is in
\* the persisted output file.
C16_CompletedItemsArePersisted ==
    \A k \in 1..ei :
        /\ output_file.exists
        /\ k <= Len(output_file.data)
        /\ load_collected_jobs(output_file)[k] = jobs_with_descriptions[k]

\* the run has written its list to the output file in this state
JustSaved ==
    \/ epc = "done"
    \/ epc = "loop" /\ ei > 0 /\ ei % CheckpointEvery = 0

\* C20: the list the stage is called with, loaded from a file, is the list
\* that was saved to it, record for record and field for field (the stage
\* does not change it); and after each save of the run the output
\* file holds exactly the N records saved, which a load gives back in their
\* order, whatever the file held before the run or before this save.
C20_SaveReplacesAndLoadReturns ==
    /\ (epc = "loop" /\ ei = 0) =>
        \A d \in EnrichInputs :
            input_file.data = JsonDump(d) => jobs_data = d
    /\ JustSaved =>
        /\ output_file.exists
        /\ Len(output_file.data) = Len(jobs_with_descriptions)
        /\ load_collected_jobs(output_file) = jobs_with_descriptions

\* a returned run over a list longer than a checkpoint: the final save found
\* the checkpoint's records in the file, which now holds the whole list, with
\* merged and original records
C20_Witness ==
    /\ epc = "done"
    /\ Len(jobs_data) > CheckpointEvery
    /\ Len(load_collected_jobs(output_file)) = Len(jobs_data)
    /\ \E k \in 1..Len(fetched) : fetched[k] = <<>>
    /\ \E k \in 1..Len(fetched) : fetched[k] # <<>>

----------------------------------------------------------------------------
(* Properties of the Matching stage, checked under SpecMatch *)

ScoreKeys ==
    {"overall_score", "technical_skills_score", "experience_score",
     "domain_score", "responsibilities_score"}
Priorities == {"HIGH", "MEDIUM", "LOW", "UNKNOWN"}

\* the analysis of job k among the results (job ids are distinct)
AnalysesOf(k) ==
    {n \in 1..Len(results) : results[n].job_id = jobs[k].job_id}

HasDescription(job) == clean_text(Get(job, "description", EmptyText)) # EmptyText
Described == {k \in 1..Len(jobs) : HasDescription(jobs[k])}

\* what analyze_all_jobs has handed to its caller
Returned == IF mpc = "returned" THEN results ELSE <<>>

\* C2: when analyze_all_jobs has ended, its caller has exactly one
\* AnalysisRecord for each job whose cleaned description is non-empty and
\* none for the others, so that the counts agree.
C2_OneAnalysisPerDescribedJob ==
    mpc \in {"returned", "raised"} =>
        /\ Len(Returned) = Cardinality(Described)
        /\ \A k \in 1..Len(jobs) :
            Cardinality({n \in 1..Len(Returned) :
                            Returned[n].job_id = jobs[k].job_id})
                = IF k \in Described THEN 1 ELSE 0

IsFallback(r) ==
    /\ \A key \in ScoreKeys : key \in DOMAIN r /\ r[key] = JInt(0)
    /\ "priority" \in DOMAIN r /\ r.priority = "UNKNOWN"
    /\ "error" \in DOMAIN r /\ r.error # None

HasSpan(content) ==
    \E k, n \in 1..Len(content) :
        k < n /\ content[k] = LBrace /\ content[n] = RBrace

\* the failures C3 names: the call raised, the response has no '{...}' span,
\* or the span is not JSON
InferenceFailed(outcome) ==
    \/ outcome.kind = "raise"
    \/ /\ outcome.kind = "content"
       /\ \/ ~HasSpan(outcome.content)
          \/ /\ JsonMatch(outcome.content) # <<>>
             /\ JsonLoads(JsonMatch(outcome.content)[1]) = <<>>

\* C3: the record of every job whose inference call raised, or whose
\* response has no '{...}' span or a span that is not JSON, is a fallback
\* record: the five scores 0, priority UNKNOWN, error set.
C3_FailureGivesFallback ==
    \A k \in 1..Len(inference) :
        InferenceFailed(inference[k]) =>
            /\ AnalysesOf(k) # {}
            /\ \A n \in AnalysesOf(k) : IsFallback(results[n])

\* a returned run with a call that raised, a response without span and a
\* response whose span is not JSON
C3_Witness ==
    /\ mpc = "returned"
    /\ \E k \in 1..Len(inference) : inference[k].kind = "raise"
    /\ \E k \in 1..Len(inference) :
        inference[k].kind = "content" /\ ~HasSpan(inference[k].content)
    /\ \E k \in 1..Len(inference) :
        /\ inference[k].kind = "content"
        /\ HasSpan(inference[k].content)
        /\ InferenceFailed(inference[k])

FitsSchema(r) ==
    /\ "overall_score" \in DOMAIN r
    /\ r.overall_score.type = "int"
    /\ r.overall_score.val \in 0..100
    /\ "priority" \in DOMAIN r
    /\ r.priority \in Priorities

\* C4: every record of the Matching output has an overall_score that is an
\* integer in 0..100 and a priority among HIGH, MEDIUM, LOW and UNKNOWN.
C4_EveryRecordFitsSchema ==
    \A n \in 1..Len(results) : FitsSchema(results[n])

\* C9: a failure on one item, a parsed response without a usable
\* overall_score included, becomes that item's fallback record, and
\* analyze_all_jobs does not raise: it returns one record per described job.
C9_ItemFailureNeverAbortsMatching ==
    /\ mpc # "raised"
    /\ \A n \in 1..Len(results) :
        ("overall_score" \notin DOMAIN results[n]
            \/ results[n].overall_score.type # "int") => IsFallback(results[n])
    /\ mpc = "returned" => Len(results) = Cardinality(Described)

\* the score a record is ranked by (0 when the record has none), and the
\* position of the record's job in the input
ScoreOf(r) == IF "overall_score" \in DOMAIN r THEN r.overall_score ELSE JInt(0)
InputIndex(r) == CHOOSE k \in 1..Len(jobs) : jobs[k].job_id = r.job_id

\* C11: in the list analyze_all_jobs returns, no record has a smaller
\* overall_score than a later one, and of two records with equal
\* overall_score the one whose job came first in the input comes first.
C11_SortedDescendingAndStable ==
    mpc = "returned" =>
        \A k, n \in 1..Len(results) :
            k < n =>
                /\ ~KeyLess(ScoreOf(results[k]), ScoreOf(results[n]))
                /\ ScoreOf(results[k]) = ScoreOf(results[n]) =>
                        InputIndex(results[k]) < InputIndex(results[n])

\* a returned list of full length whose lowest score was analysed first and
\* whose first two records tie
C11_Witness ==
    /\ mpc = "returned"
    /\ Len(results) = MaxJobs
    /\ InputIndex(results[Len(results)]) = 1
    /\ ScoreOf(results[1]) = ScoreOf(results[2])
    /\ ScoreOf(results[1]).val > ScoreOf(results[Len(results)]).val
    /\ InputIndex(results[1]) < InputIndex(results[2])

\* the span from the first '{' to the last '}' of a text, if there is one
FirstOpen(content) ==
    CHOOSE k \in 1..Len(content) :
        content[k] = LBrace /\ \A o \in 1..(k - 1) : content[o] # LBrace
LastClose(content) ==
    CHOOSE k \in 1..Len(content) :
        content[k] = RBrace /\ \A o \in (k + 1)..Len(content) : content[o] # RBrace
GreedyInner(content) ==
    SubSeq(content, FirstOpen(content) + 1, LastClose(content) - 1)
\* the text between these braces is the members of one object
SpanIsObject(content) ==
    /\ HasSpan(content)
    /\ \A k \in 1..Len(GreedyInner(content)) : IsMember(GreedyInner(content)[k])

\* the keys analyze_all_jobs sets in what calculate_match_score returned
JobKeys == {"job_id", "job_url"}
\* the record carries every member of the object, but for these keys, and is
\* no fallback
CarriesObject(r, members) ==
    /\ "error" \notin DOMAIN r
    /\ \A k \in 1..Len(members) :
        \A key \in DOMAIN MemberDict(members[k]) :
            /\ key \in DOMAIN r
            /\ (/\ key \notin JobKeys
                /\ \A n \in (k + 1)..Len(members) :
                        key \notin DOMAIN MemberDict(members[n]))
                => r[key] = MemberDict(members[k])[key]

\* C12: for every response text, the record of the job is a genuine analysis
\* with the fields of the object spelled between the first '{' and the last
\* '}' of the text when that span is one object, and the fallback record when
\* the span is not an object or the text has no such span.
C12_ParsesGreedySpan ==
    \A k \in 1..Len(inference) :
        inference[k].kind = "content" =>
            /\ AnalysesOf(k) # {}
            /\ \A n \in AnalysesOf(k) :
                IF SpanIsObject(inference[k].content)
                    THEN CarriesObject(results[n], GreedyInner(inference[k].content))
                    ELSE IsFallback(results[n])

\* a returned run with an object between prose, a response of two objects and
\* a response whose leading prose has a brace
C12_Witness ==
    /\ mpc = "returned"
    /\ \E k \in 1..Len(inference) :
        /\ inference[k].kind = "content"
        /\ inference[k].content = <<Prose>> \o GoodObject(85, "HIGH") \o <<Prose>>
        /\ \E n \in AnalysesOf(k) :
            results[n].overall_score = JInt(85) /\ results[n].priority = "HIGH"
    /\ \E k \in 1..Len(inference) :
        /\ inference[k].kind = "content"
        /\ inference[k].content =
                GoodObject(85, "MEDIUM") \o <<Prose>> \o GoodObject(40, "LOW")
    /\ \E k \in 1..Len(inference) :
        /\ inference[k].kind = "content"
        /\ inference[k].content = <<Prose, LBrace, Prose>> \o GoodObject(40, "LOW")

----------------------------------------------------------------------------
(* Properties of the Discovery stage, checked under SpecDisc *)

Min(a, b) == IF a <= b THEN a ELSE b

\* every id the search can show: on the page, hidden, or selected
Discoverable == Range(page) \cup hidden \cup ({current_job} \ {None})

\* the id the for loop has just handled was seen before and not recorded
\* now, while the quota was not met: a repeated identifier
JustSkippedRepeat ==
    /\ dpc = "for"
    /\ cur > 1
    /\ steps >= 2
    /\ Len(collected_jobs) < max_jobs
    /\ current_job_ids[cur - 1] \in seen_job_ids
    /\ collected_jobs[Len(collected_jobs)].job_id # current_job_ids[cur - 1]

\* C5: the collected list holds each job_id at most once, and a repeated
\* identifier adds nothing to the count that is compared with max_jobs: the
\* list has exactly one record per seen id.
C5_EachJobIdOnce ==
    /\ \A k, n \in 1..Len(collected_jobs) :
        k # n => collected_jobs[k].job_id # collected_jobs[n].job_id
    /\ {collected_jobs[k].job_id : k \in 1..Len(collected_jobs)} = seen_job_ids
    /\ Len(collected_jobs) = Cardinality(seen_job_ids)

\* an id that reappears in a later view has just been passed over
C5_Witness == JustSkippedRepeat

\* C6: the number of collected records never exceeds max_jobs.
C6_AtMostMaxJobs == Len(collected_jobs) <= max_jobs

\* a run that returned with the quota met while the views held more ids
C6_Witness ==
    /\ dpc = "returned"
    /\ max_jobs >= 1
    /\ Len(collected_jobs) = max_jobs
    /\ Cardinality(views) > max_jobs

\* C7, as claimed: an authenticated run returns min(max_jobs, number of
\* discoverable ids) records.
C7_ReturnsMinOfQuotaAndDiscoverable ==
    (dpc = "returned" /\ is_logged_in) =>
        Len(collected_jobs) = Min(max_jobs, Cardinality(Discoverable))

\* C7, amended: an authenticated run returns min(max_jobs, number of distinct
\* ids in the views it read) records, never more than min(max_jobs, number of
\* discoverable ids), also between two iterations of its loop.
C7_ReturnsMinOfQuotaAndViewed ==
    /\ views \subseteq Discoverable
    /\ (dpc \in {"while", "next", "returned"} /\ is_logged_in) =>
        /\ Len(collected_jobs) = Min(max_jobs, Cardinality(views))
        /\ Len(collected_jobs) <= Min(max_jobs, Cardinality(Discoverable))

\* a run that returned records, but fewer than the quota and fewer than the
\* search could show
C7_Witness ==
    /\ dpc = "returned"
    /\ is_logged_in
    /\ Len(collected_jobs) >= 1
    /\ Len(collected_jobs) < Min(max_jobs, Cardinality(Discoverable))

----------------------------------------------------------------------------
(* Properties of ensure_logged_in, checked under SpecLogin *)

Rank(strategy) ==
    CASE strategy = "cookies" -> 1
      [] strategy = "credentials" -> 2
      [] strategy = "manual" -> 3

\* C14: the strategies attempted come in the order cookies, credentials,
\* manual; every attempt before the last one failed; a successful attempt is
\* the last one and ensure_logged_in has returned True after it; and a
\* collector that is logged in without a successful attempt, that is, one
\* that was logged in when called, has attempted none.
C14_StrategiesInOrderFirstSuccessReturns ==
    /\ \A k \in 1..Len(attempts) :
        /\ k < Len(attempts) =>
            /\ ~attempts[k].ok
            /\ Rank(attempts[k].strategy) < Rank(attempts[k + 1].strategy)
        /\ attempts[k].ok =>
            /\ k = Len(attempts)
            /\ lpc = "returned"
            /\ login_result = <<TRUE>>
    /\ (is_logged_in /\ \A k \in 1..Len(attempts) : ~attempts[k].ok) =>
            attempts = <<>>
    /\ (lpc = "returned" /\ login_result = <<FALSE>>) =>
            /\ attempts # <<>>
            /\ attempts[Len(attempts)].strategy = "manual"

\* the cookies failed, the credentials logged in, and ensure_logged_in
\* returned True without the manual login
C14_Witness ==
    /\ lpc = "returned"
    /\ login_result = <<TRUE>>
    /\ Len(attempts) = 2
    /\ attempts[1].strategy = "cookies" /\ ~attempts[1].ok
    /\ attempts[2].strategy = "credentials" /\ attempts[2].ok

----------------------------------------------------------------------------
(* Properties of the Control Surface, checked under SpecApp *)

\* the run is inside fetch_all_job_descriptions, or behind it
EnrichmentInvoked(r) ==
    runs[r].kind = "collect" /\ runs[r].pc \in {"enrich", "complete", "done"}
\* the run is behind the open of analyze_all_jobs
MatchingExecuted(r) ==
    /\ runs[r].kind = "analyze"
    /\ runs[r].pc \in {"progress", "save", "report", "complete", "done"}

\* C13, for collect_jobs_background: a run in which no strategy logged in
\* never invokes the Enrichment stage (and so writes no enrichment output).
C13_NoEnrichmentWithoutLogin ==
    \A r \in DOMAIN runs : runs[r].auth = "failed" => ~EnrichmentInvoked(r)

\* C15: a run executes the Enrichment stage only if it found the discovery
\* output when it loaded it, and the Matching stage only if it found the
\* enrichment output when it opened it.
C15_MissingPrerequisiteHaltsStage ==
    \A r \in DOMAIN runs :
        (EnrichmentInvoked(r) \/ MatchingExecuted(r)) => runs[r].found

\* C17: in the state in which a reset returns, no stage file exists and
\* process_status is the initial status.
C17_ResetLeavesNothing ==
    [][(reset_pc = Len(files_to_remove) + 1 /\ reset_pc' = 0) =>
            /\ \A f \in StageFiles : ~files'[f].exists
            /\ process_status' = InitialStatus]_vars

\* C18: no two background runs of the same kind, which write the same stage
\* files, are active at the same time.
C18_OneRunAtATime ==
    \A r1, r2 \in DOMAIN runs :
        (r1 # r2 /\ Active(r1) /\ Active(r2)) => runs[r1].kind # runs[r2].kind

\* C19: the step in which a background run fails leaves process_status with
\* status error, an error text and a message; and a failed run takes no
\* further step: it stays as it is, and a stage file changes only by a
\* step of another run or of a request.
C19_FatalErrorStopsRun ==
    [][\A r \in DOMAIN runs :
            /\ (runs[r].pc # "failed" /\ runs'[r].pc = "failed") =>
                /\ process_status'.status = "error"
                /\ process_status'.error \notin {None, ""}
                /\ process_status'.message # ""
            /\ runs[r].pc = "failed" =>
                /\ runs'[r] = runs[r]
                /\ files' # files =>
                    \/ \E o \in DOMAIN runs \ {r} : runs'[o] # runs[o]
                    \/ reset_pc' # reset_pc
                    \/ upload_pc' # upload_pc]_vars

\* an analysis run that failed in create_summary_report, after it wrote
\* analysis_results.json and before the report: the status is error
C19_Witness ==
    /\ \E r \in DOMAIN runs : runs[r].kind = "analyze" /\ runs[r].pc = "failed"
    /\ files[ResultsFile].exists
    /\ ~files[ReportFile].exists
    /\ process_status.status = "error"
    /\ process_status.error = "TypeError"

----------------------------------------------------------------------------
(* Properties of create_summary_report, checked under SpecReport *)

InputScores == [k \in 1..Len(report_input) |-> report_input[k].overall_score.val]
IntegerScores ==
    \A k \in 1..Len(report_input) : report_input[k].overall_score.type = "int"
InputSum == SumVals([k \in 1..Len(report_input) |-> report_input[k].overall_score])
Reported == report_input # <<>> /\ IntegerScores /\ reports # <<>>
CountsAreRight(report) ==
    /\ report.total = Len(report_input)
    /\ report.high_matches =
            Cardinality({k \in 1..Len(report_input) : InputScores[k] >= 80})
    /\ report.medium_matches =
            Cardinality({k \in 1..Len(report_input) :
                            InputScores[k] >= 60 /\ InputScores[k] < 80})

C22_SameInputSameReport == Len(reports) = 2 => reports[1] = reports[2]

----------------------------------------------------------------------------
(* Termination of the Discovery stage, checked under SpecDiscFair *)

\* C23: every discovery run eventually returns.
C23_DiscoveryTerminates == <>(dpc = "returned")

----------------------------------------------------------------------------
(* More properties of the Discovery stage, checked under SpecDisc *)

\* the step calls scroll_to_load_more_jobs, or click_next_job
RevealsOrAdvances ==
    \/ dpc = "for" /\ dpc' \in {"while", "next"}
    \/ dpc = "next" /\ dpc' \in {"while", "returned"}

\* C24: scroll_to_load_more_jobs and click_next_job are called only while
\* fewer than max_jobs records are collected.
C24_NoRevealAfterQuota ==
    [][RevealsOrAdvances => Len(collected_jobs) < max_jobs]_vars

\* the for loop is at an id that is not seen, with the quota not reached
AtUnseenId ==
    /\ dpc = "for"
    /\ cur <= Len(current_job_ids)
    /\ ShouldCollect(current_job_ids[cur], seen_job_ids, collected_jobs, max_jobs)
Unresolved(job) ==
    job.title = None /\ job.company = None /\ job.location = None

\* C25: the step of the for loop at an unseen id, with the quota not
\* reached, appends one record with that job_id, the url derived from it and
\* title, company and location (each a text or null), and marks the id seen,
\* whether or not any detail was resolved; so every id the run has read is
\* seen once the for loop is through, unless the quota was reached.
C25_UnseenIdIsRecorded ==
    /\ [][AtUnseenId =>
            LET job_id == current_job_ids[cur]
                n == Len(collected_jobs)
            IN  /\ Len(collected_jobs') = n + 1
                /\ SubSeq(collected_jobs', 1, n) = collected_jobs
                /\ collected_jobs'[n + 1].job_id = job_id
                /\ collected_jobs'[n + 1].url = JobUrl(job_id)
                /\ {"title", "company", "location"} \subseteq
                        DOMAIN collected_jobs'[n + 1]
                /\ seen_job_ids' = seen_job_ids \cup {job_id}]_vars
    /\ [](dpc \in {"while", "next", "returned"} =>
            \/ views \subseteq seen_job_ids
            \/ Len(collected_jobs) >= max_jobs)

\* two ids are recorded, the second one with no detail at all
C25_Witness ==
    /\ Len(collected_jobs) = 2
    /\ ~Unresolved(collected_jobs[1])
    /\ Unresolved(collected_jobs[2])
    /\ collected_jobs[2].job_id \in seen_job_ids

----------------------------------------------------------------------------
(* More properties of the Enrichment stage, checked under SpecEnrich *)

\* the text of the first element found whose text is not empty
RECURSIVE FirstWithText(_, _, _)
FirstWithText(found, empty, default) ==
    IF found = <<>> THEN default
    ELSE IF Head(found) # NoElement /\ Head(found)[1] # empty THEN Head(found)[1]
    ELSE FirstWithText(Tail(found), empty, default)

\* C26: for every page fetched, each of description, title, company and
\* location is the text of the first selector, in the order of its list, that
\* gives a text that is not empty, and is absent (None, or the empty
\* description) when no selector gives one.
C26_FirstSelectorWithText ==
    \A k \in 1..Len(responses) :
        (k <= Len(fetched) /\ responses[k].kind = "page") =>
            LET soup == responses[k].soup
                job_details == fetched[k][1]
            IN  /\ job_details.description =
                        FirstWithText(soup.description, EmptyText, EmptyText)
                /\ job_details.title = FirstWithText(soup.title, "", None)
                /\ job_details.company = FirstWithText(soup.company, "", None)
                /\ job_details.location = FirstWithText(soup.location, "", None)

\* the output records of the first k input items, in input order
OutputOfFirst(k) == [n \in 1..k |-> EnrichedJob(jobs_data[n], fetched[n])]
\* the run has passed a checkpoint or the final save
HasWritten == ei >= CheckpointEvery \/ epc = "done"

\* C27: once the run has written the output file, the file holds exactly
\* the output records of the first k input items, in input order, for a k
\* that is a multiple of 5 or the number of items: the largest multiple of 5
\* processed while the loop runs, and all the items after completion.
C27_FileHoldsCheckpointedPrefix ==
    HasWritten =>
        /\ output_file.exists
        /\ \E k \in 0..ei :
            /\ k % 5 = 0 \/ k = Len(jobs_data)
            /\ load_collected_jobs(output_file) = OutputOfFirst(k)
        /\ epc # "done" =>
                load_collected_jobs(output_file) = OutputOfFirst(ei - (ei % 5))
        /\ epc = "done" =>
                load_collected_jobs(output_file) = OutputOfFirst(Len(jobs_data))

\* six items are processed, the final save is still to come, and the file
\* holds the checkpoint of the first five
C27_Witness ==
    /\ epc = "loop"
    /\ ei = 6
    /\ Len(output_file.data) = 5
    /\ load_collected_jobs(output_file) = OutputOfFirst(5)
    /\ fetched[2] # <<>> /\ fetched[3] = <<>>

\* the input record has a description already
AlreadyDescribed(job) ==
    "description" \in DOMAIN job /\ job.description # EmptyText

\* C29: the output record of an input record that has a description is the
\* input record, description included; the output record of one that lacks
\* a description carries the fetched description when the fetch succeeded.
C29_DescribedJobPassesUnfetched ==
    \A k \in 1..Len(jobs_with_descriptions) :
        IF AlreadyDescribed(jobs_data[k])
            THEN jobs_with_descriptions[k] = jobs_data[k]
            ELSE fetched[k] # <<>> =>
                    jobs_with_descriptions[k].description = fetched[k][1].description

----------------------------------------------------------------------------
(* The rerun of the Enrichment stage, checked under SpecRerun *)

\* C28: when a rerun on the same input, with the same outcome of each fetch,
\* is done, the output file is the file the first run left; and whatever the
\* file held before a run, after the run it holds the output records of the
\* input items and nothing else.
C28_RerunLeavesSameOutput ==
    /\ (run = 2 /\ epc = "done") =>
        /\ output_file = first_output
        /\ load_collected_jobs(output_file) = load_collected_jobs(first_output)
    /\ epc = "done" =>
        /\ Len(output_file.data) = Len(jobs_data)
        /\ load_collected_jobs(output_file) = OutputOfFirst(Len(jobs_data))

\* a rerun on six items, one of them with a failed fetch, is done; its
\* checkpoint had replaced the six records of the first run by five
C28_Witness ==
    /\ run = 2
    /\ epc = "done"
    /\ Len(jobs_data) = 6
    /\ Len(first_output.data) = 6
    /\ fetched[1] # <<>> /\ fetched[2] = <<>>

----------------------------------------------------------------------------
(* The description sent for scoring, checked under SpecMatch *)

\* the description analyze_all_jobs passes to calculate_match_score for job k
SentDescription(k) == clean_text(Get(jobs[k], "description", EmptyText))

HasShowMoreSpan(text) ==
    \E a, b \in 1..Len(text) :
        /\ a + Len(ShowMore) <= b
        /\ MatchesAt(text, a, ShowMore)
        /\ MatchesAt(text, b, ShowLess)

Normalized(text) ==
    /\ text # <<>> => ~IsSpace(text[1]) /\ ~IsSpace(text[Len(text)])
    /\ \A n \in 1..(Len(text) - 1) : ~(IsSpace(text[n]) /\ IsSpace(text[n + 1]))
    /\ ~HasShowMoreSpan(text)

\* C30: every description sent for scoring has no whitespace at either end,
\* no two whitespace characters in a row and no "Show more ... Show less"
\* span, and clean_text leaves it as it is.
C30_SentDescriptionIsNormalized ==
    \A k \in 1..mi :
        SentDescription(k) # EmptyText =>
            /\ Normalized(SentDescription(k))
            /\ clean_text(SentDescription(k)) = SentDescription(k)

----------------------------------------------------------------------------
(* Traceability of the analyses, checked under SpecMatch *)

\* the response for job k names a job itself
NamesAJob(k) ==
    /\ inference[k].kind = "content"
    /\ \E n \in 1..Len(inference[k].content) :
            inference[k].content[n] = JobRefMember

\* C31: every analysis in the list built, genuine or fallback, has the job_id
\* and, as job_url, the url of one of the jobs processed, and there is one
\* such analysis for every processed job that was scored, whatever job the
\* response names.
C31_AnalysisCarriesJobIdAndUrl ==
    mpc # "raised" =>
        /\ \A n \in 1..Len(results) :
                \E k \in 1..mi :
                    /\ inference[k].kind # "skipped"
                    /\ results[n].job_id = jobs[k].job_id
                    /\ results[n].job_url = jobs[k].url
        /\ \A k \in 1..mi :
                inference[k].kind # "skipped" =>
                    \E n \in 1..Len(results) :
                        /\ results[n].job_id = jobs[k].job_id
                        /\ results[n].job_url = jobs[k].url

\* a genuine analysis whose response named another job, next to a fallback
C31_Witness ==
    /\ mi = 2
    /\ Len(results) = 2
    /\ NamesAJob(1)
    /\ inference[2].kind = "raise"
    /\ \E n \in 1..2 :
            results[n].job_id = jobs[1].job_id /\ results[n].priority = "MEDIUM"

----------------------------------------------------------------------------
(* What the stages leave alone, checked under SpecStages *)

EnrichmentRuns == epc \in {"loop", "done", "raised"}
MatchingRuns == mpc \in {"loop", "sort", "returned", "raised"}

\* C32: no step of fetch_all_job_descriptions changes the discovery file or
\* the input list, which stays the list of that file; no step of
\* analyze_all_jobs changes a file or the list it loaded, which stays the
\* list of jobs_with_descriptions.json.
C32_StagesLeaveInputsAlone ==
    /\ [][/\ EnrichmentRuns => input_file' = input_file /\ jobs_data' = jobs_data
          /\ MatchingRuns =>
                /\ output_file' = output_file /\ input_file' = input_file
                /\ files' = files
                /\ jobs' = jobs]_vars
    /\ [](EnrichmentRuns => jobs_data = load_collected_jobs(input_file))
    /\ [](MatchingRuns => jobs = load_collected_jobs(output_file))

\* Enrichment has merged the fetched details of its first record, which had
\* a title, and the input record still has it
C32_Witness ==
    /\ epc = "done"
    /\ Len(jobs_data) = 2
    /\ fetched[1] # <<>>
    /\ jobs_data[1].title = "Dev"
    /\ jobs_with_descriptions[1].title = None
    /\ input_file.exists

----------------------------------------------------------------------------
(* The merge of the fetched details, checked under SpecEnrich *)

FetchedKeys == {"title", "company", "location", "employment_type",
                "seniority_level", "description"}
DiscoveredKeys == {"title", "company", "location"}

\* C33: the output record of a successful fetch has the six fetched keys at
\* their fetched values and every other key of the input record at its input
\* value, and a title, company or location the input record had is not None
\* in the output record.
C33_MergeKeepsDiscoveredFields ==
    \A k \in 1..Len(jobs_with_descriptions) :
        fetched[k] # <<>> =>
            /\ DOMAIN jobs_with_descriptions[k] = DOMAIN jobs_data[k] \cup FetchedKeys
            /\ \A key \in FetchedKeys :
                    jobs_with_descriptions[k][key] = fetched[k][1][key]
            /\ \A key \in DOMAIN jobs_data[k] \ FetchedKeys :
                    jobs_with_descriptions[k][key] = jobs_data[k][key]
            /\ \A key \in DiscoveredKeys \cap DOMAIN jobs_data[k] :
                    jobs_data[k][key] # None =>
                        jobs_with_descriptions[k][key] # None

----------------------------------------------------------------------------
(* The status and the files between the requests, checked under SpecApp *)

NoStageFile == \A f \in StageFiles : ~files[f].exists

\* no reset is being served, the status is the initial one and no run waits
\* at its start: every run that still executes has made its first update
\* and so was started before the assignment that left the status idle
QuietAfterReset ==
    /\ reset_pc = 0
    /\ process_status = InitialStatus
    /\ NoStageFile
    /\ \A r \in DOMAIN runs : runs[r].pc # "begin"

\* C34: from a state in which the status is idle and no stage file exists,
\* a step that is not the arrival of a request leaves the status idle and
\* the stage files absent, whatever run started earlier still executes.
C34_ResetStaysInForce ==
    [][(QuietAfterReset /\ requests' = requests) =>
            /\ process_status'.status = "idle"
            /\ \A f \in StageFiles : ~files'[f].exists]_vars

\* C35: process_status has status completed only with error None.
C35_CompletedHasNoError ==
    process_status.status = "completed" => process_status.error = None

\* C36: process_status has status completed only with progress 100, and a
\* step that is not the arrival of a request and leaves the status
\* processing does not lower the progress.
C36_ProgressOfCompletedAndProcessing ==
    /\ [](process_status.status = "completed" => process_status.progress = 100)
    /\ [][(/\ process_status.status = "processing"
           /\ process_status'.status = "processing"
           /\ requests' = requests) =>
                process_status'.progress >= process_status.progress]_vars

\* a collection run is inside fetch_all_job_descriptions with items still to
\* come or the final save still to make, and jobs_with_descriptions.json is
\* what its last checkpoint wrote
HoldsCheckpointOf(r) ==
    /\ AtStep(r, "collect", "enrich")
    /\ runs[r].i >= CheckpointEvery
    /\ runs[r].i - (runs[r].i % CheckpointEvery) < runs[r].n
    /\ files[EnrichedFile] = Holding(runs[r].i - (runs[r].i % CheckpointEvery))

\* C37: the step in which an analysis run reads jobs_with_descriptions.json
\* is not taken while the file is the checkpoint of a collection run that is
\* still in the enrichment.
C37_AnalysisReadsCompleteOutput ==
    [][\A a \in DOMAIN runs :
            (AtStep(a, "analyze", "analyze") /\ runs'[a].pc = "progress") =>
                ~\E r \in DOMAIN runs : HoldsCheckpointOf(r)]_vars

----------------------------------------------------------------------------
(* The login flag, checked under SpecSession *)

\* C38: when ensure_logged_in has returned, the value it returned is
\* is_logged_in; no step takes is_logged_in from TRUE to FALSE; and the
\* step in which the discovery goes to the search URL leaves is_logged_in
\* TRUE.
C38_LoginFlagIsTheResult ==
    /\ [](lpc = "returned" => login_result = <<is_logged_in>>)
    /\ [][is_logged_in => is_logged_in']_vars
    /\ [][(dpc = "login" /\ dpc' = "while") => is_logged_in']_vars
    /\ []((dpc = "returned" /\ ~is_logged_in) => views = {})

\* the manual login could not be verified after the cookies had failed, the
\* login is assumed, and ensure_logged_in has returned True with the flag set
C38_Witness ==
    /\ lpc = "returned"
    /\ login_result = <<TRUE>>
    /\ is_logged_in
    /\ Len(attempts) = 2
    /\ attempts[1].strategy = "cookies"
    /\ attempts[2] = Attempt("manual", "error", TRUE)

====
